---- MODULE Spec2Model ----
(***************************************************************************)
(* Model of the operational dashboard's core (src/utils/helpers.ts and     *)
(* its callers): the scalar parsers, the business-day calculator and the   *)
(* sales projection.                                                       *)
(*                                                                         *)
(* Text is a sequence of one-character strings.  A JavaScript number is a  *)
(* record [k, n, d]: k = "fin" is the exact rational n/d in lowest terms   *)
(* (d > 0), k = "inf" is +Infinity (n = 1) or -Infinity (n = -1), k =      *)
(* "nan" is NaN.  Arithmetic on finite values is exact; rounding of IEEE   *)
(* doubles is not modelled.  A Date is a record [k, t]: k = "date" with t  *)
(* the local time in ticks (TicksPerDay ticks to a day, day 0 = 1 Jan      *)
(* 1970), k = "invalid" the Invalid Date object, k = "null" the null       *)
(* result, k = "none" a result not computed yet.                           *)
(***************************************************************************)
EXTENDS Integers, Sequences, FiniteSets, TLC

VARIABLES
    dateText, dateOut,              \* parseDate: its argument and its result
    dayNum, outDMY, outISO,         \* one calendar day parsed from both formats
    curText, curOut,                \* parseCurrency: argument and result
    bdStart, bdEnd, bdHolidays, bdOut,   \* calculateBusinessDays
    currentSales, config, filterStartDate, filterEndDate,
    projOut, projLocals,            \* calculateProjection: result and locals
    gvArgs, gvOut,                  \* getValue: its arguments and its result
    mtProps, mtSort, unitStats,     \* ManagerialTable: props, sort state, ranking
    dtProps, dtState, processedData, \* DetailTable: props, filter and sort state, view
    baseArgs, baseOut,              \* fetchBaseData: one parsed CSV row and its record
    dashUser, dashData, dash,       \* Dashboard: the user's unit, data.base, its state
    app, load                       \* App: its state and route, the load in flight

dateVars == <<dateText, dateOut>>
tripVars == <<dayNum, outDMY, outISO>>
curVars  == <<curText, curOut>>
bdVars   == <<bdStart, bdEnd, bdHolidays, bdOut>>
projVars == <<currentSales, config, filterStartDate, filterEndDate, projOut, projLocals>>
helperVars == <<dateVars, tripVars, curVars, bdVars, projVars>>
gvVars == <<gvArgs, gvOut>>
mtVars == <<mtProps, mtSort, unitStats>>
dtVars == <<dtProps, dtState, processedData>>
baseVars == <<baseArgs, baseOut>>
dashVars == <<dashUser, dashData, dash>>
loadVars == <<app, load>>
appVars == <<baseVars, dashVars, loadVars>>
tableVars == <<gvVars, mtVars, dtVars, appVars>>
vars == <<helperVars, tableVars>>

(***************************************************************************)
(* Bounds of the model.                                                    *)
(***************************************************************************)
\* ticks of local time in one day (the resolution of time-of-day)
TicksPerDay == 2
\* the most parts (delimited fields) of a date text given to parseDate
MaxParts == 4
\* calendar days, after the first, parsed from both formats
DaySpan == 80
\* the longest currency text, in characters (the two worked examples apart)
MaxCurLen == 4
\* days, after the first, that a business-day range starts or ends on
BdSpan == 7
\* the most holidays given to calculateBusinessDays
MaxHolidays == 2

(***************************************************************************)
(* JavaScript numbers.                                                     *)
(***************************************************************************)
RECURSIVE Gcd(_, _)
Gcd(a, b) == IF b = 0 THEN a ELSE Gcd(b, a % b)

Abs(x) == IF x < 0 THEN -x ELSE x

NaN == [k |-> "nan", n |-> 0, d |-> 1]
PosInf == [k |-> "inf", n |-> 1, d |-> 1]
NegInf == [k |-> "inf", n |-> -1, d |-> 1]

\* the finite number a/b, b # 0, in lowest terms
Rat(a, b) ==
    LET g == Gcd(Abs(a), Abs(b))
        s == IF b < 0 THEN -1 ELSE 1
    IN  [k |-> "fin", n |-> s * (a \div g), d |-> s * (b \div g)]

Int2Num(i) == [k |-> "fin", n |-> i, d |-> 1]
Zero == Int2Num(0)

IsFinite(x) == x.k = "fin"
Sign(x) == IF x.n > 0 THEN 1 ELSE IF x.n < 0 THEN -1 ELSE 0

\* x / y of IEEE arithmetic: x/0 is an infinity, 0/0 and inf/inf are NaN
NumDiv(x, y) ==
    IF x.k = "nan" \/ y.k = "nan" THEN NaN
    ELSE IF x.k = "inf" /\ y.k = "inf" THEN NaN
    ELSE IF x.k = "inf" THEN (IF Sign(x) * Sign(y) < 0 THEN NegInf ELSE PosInf)
    ELSE IF y.k = "inf" THEN Zero
    ELSE IF y.n = 0 THEN (IF x.n = 0 THEN NaN ELSE IF x.n < 0 THEN NegInf ELSE PosInf)
    ELSE Rat(x.n * y.d, x.d * y.n)

\* x * y of IEEE arithmetic: inf * 0 is NaN
NumMul(x, y) ==
    IF x.k = "nan" \/ y.k = "nan" THEN NaN
    ELSE IF x.k = "inf" \/ y.k = "inf"
         THEN (IF Sign(x) * Sign(y) = 0 THEN NaN
               ELSE IF Sign(x) * Sign(y) < 0 THEN NegInf ELSE PosInf)
    ELSE Rat(x.n * y.n, x.d * y.d)

\* x - i for an integer i
NumMinusInt(x, i) ==
    IF x.k = "fin" THEN Rat(x.n - i * x.d, x.d) ELSE x

(***************************************************************************)
(* Text.                                                                   *)
(***************************************************************************)
DigitChars == <<"0", "1", "2", "3", "4", "5", "6", "7", "8", "9">>
IsDigit(c) == \E i \in 1..10 : DigitChars[i] = c
DigitVal(c) == (CHOOSE i \in 1..10 : DigitChars[i] = c) - 1

\* String.prototype.includes for a one-character needle
Includes(s, c) == \E i \in 1..Len(s) : s[i] = c

RECURSIVE SplitFrom(_, _, _, _)
SplitFrom(s, sep, acc, cur) ==
    IF s = <<>> THEN Append(acc, cur)
    ELSE IF Head(s) = sep THEN SplitFrom(Tail(s), sep, Append(acc, cur), <<>>)
    ELSE SplitFrom(Tail(s), sep, acc, Append(cur, Head(s)))

\* String.prototype.split on a one-character separator
Split(s, sep) == SplitFrom(s, sep, <<>>, <<>>)

RECURSIVE TrimLeft(_)
TrimLeft(s) == IF s # <<>> /\ Head(s) = " " THEN TrimLeft(Tail(s)) ELSE s

RECURSIVE TrimRight(_)
TrimRight(s) ==
    IF s # <<>> /\ s[Len(s)] = " " THEN TrimRight(SubSeq(s, 1, Len(s) - 1)) ELSE s

\* String.prototype.trim
Trim(s) == TrimRight(TrimLeft(s))

\* the value of the longest prefix of digits of s, and how many digits it has
RECURSIVE DigitPrefix(_, _, _)
DigitPrefix(s, acc, cnt) ==
    IF s # <<>> /\ IsDigit(Head(s))
    THEN DigitPrefix(Tail(s), 10 * acc + DigitVal(Head(s)), cnt + 1)
    ELSE [v |-> acc, cnt |-> cnt]

\* parseInt(s) in radix 10: leading blanks, a sign, the digits that follow;
\* NaN when no digit follows
parseInt(s) ==
    LET t == TrimLeft(s)
        signed == t # <<>> /\ Head(t) \in {"-", "+"}
        body == IF signed THEN Tail(t) ELSE t
        r == DigitPrefix(body, 0, 0)
    IN  IF r.cnt = 0 THEN NaN
        ELSE IF signed /\ Head(t) = "-" THEN Int2Num(-r.v) ELSE Int2Num(r.v)

(***************************************************************************)
(* Dates.                                                                  *)
(***************************************************************************)
NullDate == [k |-> "null", t |-> 0]
InvalidDate == [k |-> "invalid", t |-> 0]
NoDate == [k |-> "none", t |-> 0]
\* the Date at tick `tick` of day number `day`
DateAt(day, tick) == [k |-> "date", t |-> day * TicksPerDay + tick]
DayOf(date) == date.t \div TicksPerDay

IsLeap(y) == (y % 4 = 0 /\ y % 100 # 0) \/ y % 400 = 0
\* day number of 1 January of year y
DayFromYear(y) ==
    365 * (y - 1970) + ((y - 1969) \div 4) - ((y - 1901) \div 100) + ((y - 1601) \div 400)
\* days of the year before month index mn (0 = January)
MonthOffset(mn, leap) ==
    <<0, 31, 59, 90, 120, 151, 181, 212, 243, 273, 304, 334>>[mn + 1]
        + (IF leap /\ mn >= 2 THEN 1 ELSE 0)
\* MakeDay of the language: months and days out of range carry over
MakeDay(y, m, dt) ==
    LET ym == y + (m \div 12)
        mn == m % 12
    IN  DayFromYear(ym) + MonthOffset(mn, IsLeap(ym)) + dt - 1

\* new Date(year, monthIndex, day): local midnight; Invalid Date when an
\* argument is NaN; years 0..99 are taken as 1900..1999
JsNewDate(year, monthIndex, day) ==
    IF ~(IsFinite(year) /\ IsFinite(monthIndex) /\ IsFinite(day)) THEN InvalidDate
    ELSE LET y == IF year.n >= 0 /\ year.n <= 99 THEN 1900 + year.n ELSE year.n
         IN  DateAt(MakeDay(y, monthIndex.n, day.n), 0)

\* a faulty variant of DateFromYMD: the parts read in dd-mm-yyyy order
DateFromYMD_DayFirst(parts) ==
    JsNewDate(parseInt(parts[3]), NumMinusInt(parseInt(parts[2]), 1), parseInt(parts[1]))

\* helpers.ts:14, the date of the parts of a dd/mm/yyyy text
DateFromDMY(parts) ==
    JsNewDate(parseInt(parts[3]), NumMinusInt(parseInt(parts[2]), 1), parseInt(parts[1]))

\* helpers.ts:23 and :36, the date of the parts of a yyyy-mm-dd text
DateFromYMD(parts) ==
    JsNewDate(parseInt(parts[1]), NumMinusInt(parseInt(parts[2]), 1), parseInt(parts[3]))

parseDate(dateStr) ==
    IF dateStr = <<>> THEN NullDate
    ELSE IF Includes(dateStr, "/") /\ Len(Split(dateStr, "/")) = 3
         THEN DateFromDMY(Split(dateStr, "/"))
    ELSE IF Includes(dateStr, "-") /\ Len(Split(dateStr, "-")) = 3
         THEN DateFromYMD(Split(dateStr, "-"))
    ELSE NullDate

parseInputDate(isoStr) ==
    IF isoStr = <<>> THEN NullDate
    ELSE IF Len(Split(isoStr, "-")) # 3 THEN NullDate
    ELSE DateFromYMD(Split(isoStr, "-"))

(***************************************************************************)
(* parseCurrency (helpers.ts:50-71).                                        *)
(***************************************************************************)
\* one text element that stands for a run of 400 consecutive "0" characters
ZeroRun == "0{400}"
IsNumeral(c) == IsDigit(c) \/ c = ZeroRun

\* the integer part of a decimal literal: its value, whether it has a
\* digit, whether it exceeds the largest double, and the text left
RECURSIVE IntPart(_, _, _, _)
IntPart(s, acc, seen, over) ==
    IF s # <<>> /\ IsDigit(Head(s))
    THEN IntPart(Tail(s), IF over THEN acc ELSE 10 * acc + DigitVal(Head(s)), TRUE, over)
    ELSE IF s # <<>> /\ Head(s) = ZeroRun
    THEN IntPart(Tail(s), acc, TRUE, over \/ acc > 0)
    ELSE [v |-> acc, seen |-> seen, over |-> over, rest |-> s]

\* the fraction digits of a decimal literal: numerator and denominator of
\* the digits read, and whether there is a digit.  The digits that follow a
\* ZeroRun lie below the precision of a double and are dropped.
RECURSIVE FracPart(_, _, _, _, _)
FracPart(s, num, den, seen, cut) ==
    IF s # <<>> /\ IsDigit(Head(s))
    THEN IF cut THEN FracPart(Tail(s), num, den, TRUE, cut)
         ELSE FracPart(Tail(s), 10 * num + DigitVal(Head(s)), 10 * den, TRUE, cut)
    ELSE IF s # <<>> /\ Head(s) = ZeroRun
    THEN FracPart(Tail(s), num, den, TRUE, TRUE)
    ELSE [num |-> num, den |-> den, seen |-> seen]

\* parseFloat on text without exponent or Infinity literal: leading
\* blanks, a sign, digits, a point, digits; the longest such prefix;
\* NaN when it holds no digit, an infinity when the double overflows
parseFloat(s) ==
    LET t == TrimLeft(s)
        signed == t # <<>> /\ Head(t) \in {"-", "+"}
        sg == IF signed /\ Head(t) = "-" THEN -1 ELSE 1
        body == IF signed THEN Tail(t) ELSE t
        ip == IntPart(body, 0, FALSE, FALSE)
        hasPoint == ip.rest # <<>> /\ Head(ip.rest) = "."
        fp == IF hasPoint THEN FracPart(Tail(ip.rest), 0, 1, FALSE, FALSE)
              ELSE [num |-> 0, den |-> 1, seen |-> FALSE]
    IN  IF ~ip.seen /\ ~fp.seen THEN NaN
        ELSE IF ip.over THEN (IF sg < 0 THEN NegInf ELSE PosInf)
        ELSE Rat(sg * (ip.v * fp.den + fp.num), fp.den)

\* x || 0: NaN and 0 give 0, every other value (an infinity too) is kept
OrZero(x) == IF x.k = "nan" \/ (x.k = "fin" /\ x.n = 0) THEN Zero ELSE x

\* s.replace(/\./g, '')
RemoveDots(s) == SelectSeq(s, LAMBDA c : c # ".")

\* s.replace(',', '.'): the first comma only
RECURSIVE ReplaceFirstComma(_)
ReplaceFirstComma(s) ==
    IF s = <<>> THEN <<>>
    ELSE IF Head(s) = "," THEN <<".">> \o Tail(s)
    ELSE <<Head(s)>> \o ReplaceFirstComma(Tail(s))

\* s.replace(/[^\d.-]/g, '')
StripNonNumeric(s) == SelectSeq(s, LAMBDA c : IsNumeral(c) \/ c = "." \/ c = "-")

parseCurrency(val) ==
    IF val = <<>> THEN Zero
    ELSE LET strVal == Trim(val)
         IN  IF Includes(strVal, ",")
             THEN OrZero(parseFloat(StripNonNumeric(ReplaceFirstComma(RemoveDots(strVal)))))
             ELSE OrZero(parseFloat(StripNonNumeric(strVal)))

(***************************************************************************)
(* calculateBusinessDays (helpers.ts:74-98).                                *)
(***************************************************************************)
\* a faulty variant of SetHoursMidnight: the time of day is kept
SetHoursMidnight_Keep(d) == d

\* helpers.ts:76-80 and :83-84, d.setHours(0,0,0,0) on a copy of d
SetHoursMidnight(d) == IF d.k = "date" THEN DateAt(DayOf(d), 0) ELSE d

\* d.toDateString(): the local calendar day, or "Invalid Date"
ToDateString(d) ==
    IF d.k = "date" THEN [k |-> "day", day |-> DayOf(d)] ELSE [k |-> "invalid", day |-> 0]

\* d.getDay(): 0 = Sunday .. 6 = Saturday (day 0 is a Thursday)
GetDay(d) == (DayOf(d) + 4) % 7

\* d.setDate(d.getDate() + 1)
NextDay(d) == [d EXCEPT !.t = @ + TicksPerDay]

\* helpers.ts:82-86
HolidayStrings(holidays) ==
    [i \in 1..Len(holidays) |-> ToDateString(SetHoursMidnight(holidays[i]))]

\* a faulty variant of LoopContinues: the end day is left out
LoopContinues_Exclusive(curDate, endDate) ==
    curDate.k = "date" /\ endDate.k = "date" /\ curDate.t < endDate.t

\* helpers.ts:88, curDate <= endDate (false when either is Invalid Date)
LoopContinues(curDate, endDate) ==
    curDate.k = "date" /\ endDate.k = "date" /\ curDate.t <= endDate.t

\* a faulty variant of IsCounted: Saturday is taken for a working day
IsCounted_Saturday(curDate, holidayStrings) ==
    /\ GetDay(curDate) # 0
    /\ \A i \in 1..Len(holidayStrings) : holidayStrings[i] # ToDateString(curDate)

\* helpers.ts:89-91, whether the day of curDate is counted
IsCounted(curDate, holidayStrings) ==
    /\ GetDay(curDate) # 0 /\ GetDay(curDate) # 6
    /\ \A i \in 1..Len(holidayStrings) : holidayStrings[i] # ToDateString(curDate)

\* helpers.ts:88-96, the loop from curDate with `count` counted so far
RECURSIVE CountLoop(_, _, _, _)
CountLoop(curDate, endDate, holidayStrings, count) ==
    IF LoopContinues(curDate, endDate)
    THEN CountLoop(NextDay(curDate), endDate, holidayStrings,
                   IF IsCounted(curDate, holidayStrings) THEN count + 1 ELSE count)
    ELSE count

calculateBusinessDays(start, end, holidays) ==
    CountLoop(SetHoursMidnight(start), SetHoursMidnight(end), HolidayStrings(holidays), 0)

(***************************************************************************)
(* calculateProjection (helpers.ts:100-148).                                *)
(***************************************************************************)
\* helpers.ts:112, the holidays that parseDate does not turn into null
ParsedHolidays(feriados) ==
    SelectSeq([i \in 1..Len(feriados) |-> parseDate(feriados[i])],
              LAMBDA d : d.k # "null")

\* a < b on Date objects (false when either is Invalid Date)
DateLess(a, b) == a.k = "date" /\ b.k = "date" /\ a.t < b.t

\* a faulty variant of AccumulationPeriod: the filter's end is not capped
AccumulationPeriod_Uncapped(startMonth, current, fStartText, fEndText) ==
    IF fStartText # <<>> /\ fEndText # <<>>
       /\ parseInputDate(fStartText).k # "null" /\ parseInputDate(fEndText).k # "null"
    THEN [periodStart |-> parseInputDate(fStartText),
          periodEnd |-> parseInputDate(fEndText)]
    ELSE [periodStart |-> startMonth, periodEnd |-> current]

\* helpers.ts:117-139, the period whose sales are averaged
AccumulationPeriod(startMonth, current, fStartText, fEndText) ==
    IF fStartText # <<>> /\ fEndText # <<>>
       /\ parseInputDate(fStartText).k # "null" /\ parseInputDate(fEndText).k # "null"
    THEN [periodStart |-> parseInputDate(fStartText),
          periodEnd |-> IF DateLess(parseInputDate(fEndText), current)
                        THEN parseInputDate(fEndText) ELSE current]
    ELSE [periodStart |-> startMonth, periodEnd |-> current]

\* floor of a finite number
NumFloor(x) == IF x.k = "fin" THEN Int2Num(x.n \div x.d) ELSE x

\* a faulty variant of ProjectionResult: no guard against zero business days
ProjectionResult_NoGuard(sales, passedBusinessDays, totalMonthBusinessDays) ==
    NumMul(NumDiv(sales, Int2Num(passedBusinessDays)), Int2Num(totalMonthBusinessDays))

\* a faulty variant of ProjectionResult: the two day counts exchanged
ProjectionResult_Swapped(sales, passedBusinessDays, totalMonthBusinessDays) ==
    IF passedBusinessDays = 0 THEN Zero
    ELSE NumMul(NumDiv(sales, Int2Num(totalMonthBusinessDays)), Int2Num(passedBusinessDays))

\* a faulty variant of ProjectionResult: the projection rounded down to a whole number
ProjectionResult_Floored(sales, passedBusinessDays, totalMonthBusinessDays) ==
    IF passedBusinessDays = 0 THEN Zero
    ELSE NumFloor(NumMul(NumDiv(sales, Int2Num(passedBusinessDays)),
                         Int2Num(totalMonthBusinessDays)))

\* helpers.ts:144-147
ProjectionResult(sales, passedBusinessDays, totalMonthBusinessDays) ==
    IF passedBusinessDays = 0 THEN Zero
    ELSE NumMul(NumDiv(sales, Int2Num(passedBusinessDays)), Int2Num(totalMonthBusinessDays))

NoLocals ==
    [returned |-> "early", periodStart |-> NoDate, periodEnd |-> NoDate,
     totalMonthBusinessDays |-> 0, passedBusinessDays |-> 0]

\* the locals of calculateProjection when it returns
ProjectionLocals(cfg, fStartText, fEndText) ==
    LET startMonth == parseDate(cfg.dataInicial)
        endMonth == parseDate(cfg.dataFinal)
        current == parseDate(cfg.dataAtual)
    IN  IF startMonth.k = "null" \/ endMonth.k = "null" \/ current.k = "null"
        THEN NoLocals
        ELSE LET holidays == ParsedHolidays(cfg.feriados)
                 period == AccumulationPeriod(startMonth, current, fStartText, fEndText)
             IN  [returned |-> "end",
                  periodStart |-> period.periodStart,
                  periodEnd |-> period.periodEnd,
                  totalMonthBusinessDays |->
                      calculateBusinessDays(startMonth, endMonth, holidays),
                  passedBusinessDays |->
                      calculateBusinessDays(period.periodStart, period.periodEnd, holidays)]

calculateProjection(sales, cfg, fStartText, fEndText) ==
    LET l == ProjectionLocals(cfg, fStartText, fEndText)
    IN  IF l.returned = "early" THEN Zero
        ELSE ProjectionResult(sales, l.passedBusinessDays, l.totalMonthBusinessDays)

(***************************************************************************)
(* The texts and values the operations are applied to.                     *)
(***************************************************************************)
\* the calendar date <<year, month, day>> of a day number
CivilFromDays(n) ==
    LET z == n + 719468
        era == z \div 146097
        doe == z - era * 146097
        yoe == (doe - (doe \div 1460) + (doe \div 36524) - (doe \div 146096)) \div 365
        doy == doe - (365 * yoe + (yoe \div 4) - (yoe \div 100))
        mp == (5 * doy + 2) \div 153
        d == doy - ((153 * mp + 2) \div 5) + 1
        m == IF mp < 10 THEN mp + 3 ELSE mp - 9
        y == yoe + era * 400 + (IF m <= 2 THEN 1 ELSE 0)
    IN  <<y, m, d>>

\* the decimal digits of n, padded with zeros to `width` characters
RECURSIVE Digits(_, _)
Digits(n, width) ==
    IF width = 0 THEN <<>>
    ELSE Append(Digits(n \div 10, width - 1), DigitChars[(n % 10) + 1])

\* the dd/mm/yyyy text of a day number
FormatDMY(n) ==
    LET c == CivilFromDays(n)
    IN  Digits(c[3], 2) \o <<"/">> \o Digits(c[2], 2) \o <<"/">> \o Digits(c[1], 4)

\* the yyyy-mm-dd text of a day number
FormatISO(n) ==
    LET c == CivilFromDays(n)
    IN  Digits(c[1], 4) \o <<"-">> \o Digits(c[2], 2) \o <<"-">> \o Digits(c[3], 2)

\* day numbers of February and March 2024
Feb(d) == MakeDay(2024, 1, d)
Mar(d) == MakeDay(2024, 2, d)

Garbage == <<"a", "a", "/", "b", "b", "/", "c", "c", "c", "c">>

\* the first calendar day parsed from both formats: 20 December 2023
FirstDay == DayFromYear(2024) - 12

\* parts of the date texts given to parseDate
DateParts == { <<>>, <<"0", "3">>, <<"2", "0", "2", "4">>, <<"a", "a">> }

\* the texts of k parts separated by "/" or "-"
RECURSIVE JoinedTexts(_)
JoinedTexts(k) ==
    IF k = 1 THEN DateParts
    ELSE { t \o <<sep>> \o p : t \in JoinedTexts(k - 1), sep \in {"/", "-"}, p \in DateParts }

DateTexts == {Garbage} \cup UNION { JoinedTexts(k) : k \in 1..MaxParts }

CurChars == {"1", ".", ",", "-", "R", " ", ZeroRun}
CurTexts ==
    UNION { [1..n -> CurChars] : n \in 0..MaxCurLen }
    \cup { <<"1", ".", "2", "3", "4", ",", "5", "6">>, <<"1", "2", "3", "4", ".", "5", "6">> }

\* the first day of the business-day ranges: Friday 1 March 2024
BdFirstDay == Mar(1)
BdTicks == {0, TicksPerDay - 1}
BdDates ==
    {InvalidDate} \cup { DateAt(BdFirstDay + i, tk) : i \in 0..BdSpan, tk \in BdTicks }
\* a Monday at two times of day, a Saturday, a Tuesday, and an Invalid Date
BdHolidayDates ==
    { DateAt(Mar(4), 0), DateAt(Mar(4), TicksPerDay - 1), DateAt(Mar(2), 0),
      DateAt(Mar(5), TicksPerDay - 1), InvalidDate }
BdHolidayLists == UNION { [1..n -> BdHolidayDates] : n \in 0..MaxHolidays }

SalesValues ==
    { Zero, Int2Num(300), Rat(301, 2), Int2Num(-300), NaN, PosInf }
Configs ==
    [ dataInicial : { FormatDMY(Mar(1)), <<>>, Garbage },
      dataFinal : { FormatDMY(Mar(31)), FormatDMY(Feb(29)), Garbage },
      dataAtual : { FormatDMY(Mar(2)), FormatDMY(Mar(5)), FormatDMY(Feb(29)), Garbage },
      feriados : { <<>>, <<FormatDMY(Mar(1))>>, <<FormatDMY(Mar(5)), FormatDMY(Mar(5))>>,
                   <<Garbage, <<>>, FormatDMY(Mar(4))>> } ]
\* <<>> is an absent filter date; "2024-03" parses to null
FilterStarts ==
    { <<>>, FormatISO(Feb(26)), FormatISO(Mar(2)), FormatISO(Mar(5)),
      <<"2", "0", "2", "4", "-", "0", "3">> }
FilterEnds == { <<>>, FormatISO(Mar(3)), FormatISO(Mar(5)), FormatISO(Mar(29)) }

(***************************************************************************)
(* The state machines: one call of each operation on inputs drawn by Init. *)
(***************************************************************************)
NoNum == [k |-> "none", n |-> 0, d |-> 1]
NoConfig == [dataInicial |-> <<>>, dataFinal |-> <<>>, dataAtual |-> <<>>, feriados |-> <<>>]

IdleDate == dateText = <<>> /\ dateOut = NoDate
IdleTrip == dayNum = 0 /\ outDMY = NoDate /\ outISO = NoDate
IdleCur == curText = <<>> /\ curOut = NoNum
IdleBd == bdStart = NoDate /\ bdEnd = NoDate /\ bdHolidays = <<>> /\ bdOut = -1
IdleProj ==
    /\ currentSales = NoNum /\ config = NoConfig
    /\ filterStartDate = <<>> /\ filterEndDate = <<>>
    /\ projOut = NoNum /\ projLocals = NoLocals

\* a text result not computed yet, a list result not computed yet
NoText == [done |-> FALSE, v |-> <<>>]
NoRows == [done |-> FALSE, rows |-> <<>>]
IdleGv ==
    /\ gvArgs = [fields |-> <<>>, row |-> <<>>, keys |-> <<>>, index |-> 0]
    /\ gvOut = NoText
IdleMt ==
    /\ mtProps = [data |-> <<>>, meta |-> <<>>, datas |-> NoConfig, activeTab |-> "NONE",
                  activeFilter |-> "TODOS", startDate |-> <<>>, endDate |-> <<>>]
    /\ mtSort = [sortField |-> "null", sortDirection |-> "desc"]
    /\ unitStats = NoRows
IdleDt ==
    /\ dtProps = [data |-> <<>>, type |-> "NONE", initialFilter |-> ""]
    /\ dtState = [statusFilter |-> "TODOS", sortField |-> "null", sortDirection |-> "asc"]
    /\ processedData = NoRows
IdleBase == baseArgs = [fields |-> <<>>, row |-> <<>>] /\ baseOut = NoRows
IdleDash ==
    /\ dashUser = <<>> /\ dashData = <<>>
    /\ dash = [selectedUnit |-> <<>>, activeTab |-> "NONE", activeFilter |-> "TODOS"]
\* no user logged in, and the datas of the initial appData
NoUser == [loggedIn |-> FALSE, usuario |-> <<>>, senha |-> <<>>, unidade |-> <<>>]
NullDatas == [isNull |-> TRUE, v |-> NoConfig]
InitialAppData == [base |-> <<>>, users |-> <<>>, meta |-> <<>>, datas |-> NullDatas]
FetchNames == {"users", "base", "meta", "datas"}
IdleLoad ==
    /\ app = [user |-> NoUser, isLoading |-> FALSE, appData |-> InitialAppData,
              route |-> "/login"]
    /\ load = [pc |-> "none", st |-> [f \in FetchNames |-> "none"], val |-> InitialAppData]
IdleApp == IdleBase /\ IdleDash /\ IdleLoad
IdleTables == IdleGv /\ IdleMt /\ IdleDt /\ IdleApp
IdleHelpers == IdleDate /\ IdleTrip /\ IdleCur /\ IdleBd /\ IdleProj

\* parseDate on one text
InitDate ==
    /\ dateText \in DateTexts /\ dateOut = NoDate
    /\ IdleTrip /\ IdleCur /\ IdleBd /\ IdleProj /\ IdleTables
CallParseDate ==
    /\ dateOut = NoDate
    /\ dateOut' = parseDate(dateText)
    /\ UNCHANGED <<dateText, tripVars, curVars, bdVars, projVars, tableVars>>
SpecParseDate == InitDate /\ [][CallParseDate]_vars

\* parseDate on the two texts of one calendar day
InitTrip ==
    /\ dayNum \in FirstDay..(FirstDay + DaySpan) /\ outDMY = NoDate /\ outISO = NoDate
    /\ IdleDate /\ IdleCur /\ IdleBd /\ IdleProj /\ IdleTables
ParseDMY ==
    /\ outDMY = NoDate
    /\ outDMY' = parseDate(FormatDMY(dayNum))
    /\ UNCHANGED <<dayNum, outISO, dateVars, curVars, bdVars, projVars, tableVars>>
ParseISO ==
    /\ outISO = NoDate
    /\ outISO' = parseDate(FormatISO(dayNum))
    /\ UNCHANGED <<dayNum, outDMY, dateVars, curVars, bdVars, projVars, tableVars>>
NextTrip == ParseDMY \/ ParseISO
SpecRoundTrip == InitTrip /\ [][NextTrip]_vars

\* parseCurrency on one text
InitCur ==
    /\ curText \in CurTexts /\ curOut = NoNum
    /\ IdleDate /\ IdleTrip /\ IdleBd /\ IdleProj /\ IdleTables
CallParseCurrency ==
    /\ curOut = NoNum
    /\ curOut' = parseCurrency(curText)
    /\ UNCHANGED <<curText, dateVars, tripVars, bdVars, projVars, tableVars>>
SpecCurrency == InitCur /\ [][CallParseCurrency]_vars

\* calculateBusinessDays on one range and one list of holidays
InitBd ==
    /\ bdStart \in BdDates /\ bdEnd \in BdDates /\ bdHolidays \in BdHolidayLists
    /\ bdOut = -1
    /\ IdleDate /\ IdleTrip /\ IdleCur /\ IdleProj /\ IdleTables
\* the Date objects passed in, as the call leaves them: curDate, endDate and
\* each d are fresh objects (new Date(x.getTime())), and setHours and setDate
\* act on those
BusinessDaysArgsAfter(start, end, holidays) ==
    [start |-> start, end |-> end, holidays |-> holidays]
CallCalculateBusinessDays ==
    /\ bdStart # NoDate /\ bdOut = -1
    /\ bdOut' = calculateBusinessDays(bdStart, bdEnd, bdHolidays)
    /\ LET after == BusinessDaysArgsAfter(bdStart, bdEnd, bdHolidays)
       IN  bdStart' = after.start /\ bdEnd' = after.end /\ bdHolidays' = after.holidays
    /\ UNCHANGED <<dateVars, tripVars, curVars, projVars, tableVars>>
SpecBusinessDays == InitBd /\ [][CallCalculateBusinessDays]_vars

\* calculateProjection on one sales figure, configuration and filter
InitProj ==
    /\ currentSales \in SalesValues /\ config \in Configs
    /\ filterStartDate \in FilterStarts /\ filterEndDate \in FilterEnds
    /\ projOut = NoNum /\ projLocals = NoLocals
    /\ IdleDate /\ IdleTrip /\ IdleCur /\ IdleBd /\ IdleTables
CallCalculateProjection ==
    /\ currentSales # NoNum /\ projOut = NoNum
    /\ projOut' = calculateProjection(currentSales, config, filterStartDate, filterEndDate)
    /\ projLocals' = ProjectionLocals(config, filterStartDate, filterEndDate)
    /\ UNCHANGED <<currentSales, config, filterStartDate, filterEndDate,
                   dateVars, tripVars, curVars, bdVars, tableVars>>
SpecProjection == InitProj /\ [][CallCalculateProjection]_vars

(***************************************************************************)
(* Field resolution of the CSV loader.  A parsed row is the list of its    *)
(* columns in file order, each a header name and a cell text; `fields` is  *)
(* the list of header names of the file.  A row shorter than the header    *)
(* lacks the trailing columns.                                             *)
(***************************************************************************)
\* a property value that may be undefined
Undefined == [def |-> FALSE, v |-> <<>>]
Defined(t) == [def |-> TRUE, v |-> t]

\* one element each: the precomposed letter a-acute, the combining acute accent
AcuteA == "U+00E1"
CombiningAcute == "U+0301"

\* String.prototype.normalize("NFD"): a precomposed letter becomes the base
\* letter followed by its combining mark
RECURSIVE NormalizeNFD(_)
NormalizeNFD(s) ==
    IF s = <<>> THEN <<>>
    ELSE (IF Head(s) = AcuteA THEN <<"a", CombiningAcute>> ELSE <<Head(s)>>)
         \o NormalizeNFD(Tail(s))

\* .replace(/[̀-ͯ]/g, "")
RemoveAccents(s) == SelectSeq(s, LAMBDA c : c # CombiningAcute)

\* .replace(/\s+/g, " "): every run of whitespace becomes one space
IsWhitespace(c) == c \in {" ", "\t"}
RECURSIVE CollapseWhitespace(_)
CollapseWhitespace(s) ==
    IF s = <<>> THEN <<>>
    ELSE IF IsWhitespace(Head(s))
         THEN IF Tail(s) # <<>> /\ IsWhitespace(Head(Tail(s)))
              THEN CollapseWhitespace(Tail(s))
              ELSE <<" ">> \o CollapseWhitespace(Tail(s))
    ELSE <<Head(s)>> \o CollapseWhitespace(Tail(s))

\* String.prototype.toUpperCase on the letters of the model
LowerLetters ==
    <<"a", "b", "c", "d", "e", "f", "g", "h", "i", "j", "k", "l", "m">>
    \o <<"n", "o", "p", "q", "r", "s", "t", "u", "v", "w", "x", "y", "z">>
UpperLetters ==
    <<"A", "B", "C", "D", "E", "F", "G", "H", "I", "J", "K", "L", "M">>
    \o <<"N", "O", "P", "Q", "R", "S", "T", "U", "V", "W", "X", "Y", "Z">>
UpperChar(c) ==
    IF \E i \in 1..Len(LowerLetters) : LowerLetters[i] = c
    THEN UpperLetters[CHOOSE i \in 1..Len(LowerLetters) : LowerLetters[i] = c]
    ELSE c
ToUpperCase(s) == [i \in 1..Len(s) |-> UpperChar(s[i])]

normalizeString(str) ==
    IF str = <<>> THEN <<>>
    ELSE ToUpperCase(Trim(CollapseWhitespace(RemoveAccents(NormalizeNFD(str)))))

\* row[name]: the cell of the column of that name, undefined when there is none
RowGet(row, name) ==
    IF \E i \in 1..Len(row) : row[i].key = name
    THEN Defined(row[CHOOSE i \in 1..Len(row) : row[i].key = name].val)
    ELSE Undefined

\* getKey: the cell of the first column whose normalized name is the
\* normalized target; an empty name found is falsy and gives undefined
getKey(row, targetKey) ==
    LET normalizedTarget == normalizeString(targetKey)
        matches == {i \in 1..Len(row) : normalizeString(row[i].key) = normalizedTarget}
        found == row[CHOOSE i \in matches : \A j \in matches : i <= j].key
    IN  IF matches = {} THEN Undefined
        ELSE IF found = <<>> THEN Undefined
        ELSE RowGet(row, found)

\* the loop over the candidate keys, from position i
RECURSIVE TryKeys(_, _, _)
TryKeys(row, keys, i) ==
    IF i > Len(keys) THEN Undefined
    ELSE LET val == getKey(row, keys[i])
         IN  IF val.def /\ val.v # <<>> THEN val ELSE TryKeys(row, keys, i + 1)

\* getValue; `index` counts from 0
getValue(fields, row, keys, index) ==
    LET byKey == TryKeys(row, keys, 1)
    IN  IF byKey.def THEN byKey.v
        ELSE IF index + 1 <= Len(fields) /\ fields[index + 1] # <<>>
                /\ RowGet(row, fields[index + 1]).def
             THEN RowGet(row, fields[index + 1]).v
        ELSE <<>>

\* inputs of getValue
MaxCols == 2
HeaderNames ==
    { <<"A">>, <<AcuteA>>, <<"b">>, <<" ", "B", "\t">>, <<>> }
CellTexts == { <<>>, <<"1">>, <<"2">> }
FieldLists ==
    UNION { { f \in [1..n -> HeaderNames] : \A i, j \in 1..n : i # j => f[i] # f[j] }
            : n \in 0..MaxCols }
RowsOf(fields) ==
    UNION { { [i \in 1..n |-> [key |-> fields[i], val |-> c[i]]] : c \in [1..n -> CellTexts] }
            : n \in 0..Len(fields) }
CandidateLists ==
    { << <<"A">> >>, << <<"B">> >>, << <<"A">>, <<"B">> >>, << <<"B">>, <<"A">> >>,
      << <<"A", " ", "B">>, <<"A">> >> }

InitGv ==
    /\ \E f \in FieldLists : \E r \in RowsOf(f) : \E ks \in CandidateLists :
       \E ix \in 0..MaxCols :
           gvArgs = [fields |-> f, row |-> r, keys |-> ks, index |-> ix]
    /\ gvOut = NoText
    /\ IdleHelpers /\ IdleMt /\ IdleDt /\ IdleApp
CallGetValue ==
    /\ ~gvOut.done
    /\ gvOut' = [done |-> TRUE,
                 v |-> getValue(gvArgs.fields, gvArgs.row, gvArgs.keys, gvArgs.index)]
    /\ UNCHANGED <<gvArgs, helperVars, mtVars, dtVars, appVars>>
SpecGetValue == InitGv /\ [][CallGetValue]_vars

(***************************************************************************)
(* Number and array operations used by the two tables.                     *)
(***************************************************************************)
\* x + y of IEEE arithmetic: inf + (-inf) is NaN
NumAdd(x, y) ==
    IF x.k = "nan" \/ y.k = "nan" THEN NaN
    ELSE IF x.k = "inf" /\ y.k = "inf" THEN (IF x = y THEN x ELSE NaN)
    ELSE IF x.k = "inf" THEN x
    ELSE IF y.k = "inf" THEN y
    ELSE Rat(x.n * y.d + y.n * x.d, x.d * y.d)
NumNeg(x) == IF x.k = "nan" THEN NaN ELSE [x EXCEPT !.n = -x.n]
NumSub(x, y) == NumAdd(x, NumNeg(y))
\* x > 0
NumPositive(x) == x.k # "nan" /\ x.n > 0
\* x === y on numbers: NaN equals nothing
NumStrictEquals(x, y) == x.k # "nan" /\ y.k # "nan" /\ x = y
\* what Array.prototype.sort makes of a comparator result: its sign, NaN as 0
ComparatorSign(v) == IF v.k = "nan" THEN 0 ELSE Sign(v)

\* Array.prototype.sort, a stable sort; cmp[<<i, j>>] is the comparator's
\* verdict on the elements at positions i and j of the array
RECURSIVE InsertIndex(_, _, _)
InsertIndex(p, x, cmp) ==
    IF p = <<>> THEN <<x>>
    ELSE IF cmp[<<Head(p), x>>] > 0 THEN <<x>> \o p
    ELSE <<Head(p)>> \o InsertIndex(Tail(p), x, cmp)
RECURSIVE SortedIndices(_, _)
SortedIndices(n, cmp) ==
    IF n = 0 THEN <<>> ELSE InsertIndex(SortedIndices(n - 1, cmp), n, cmp)
ArraySort(s, cmp) ==
    LET p == SortedIndices(Len(s), cmp)
    IN  [i \in 1..Len(s) |-> s[p[i]]]

\* Array.prototype.filter by positions kept
RECURSIVE FilterFrom(_, _, _)
FilterFrom(s, keep, i) ==
    IF i > Len(s) THEN <<>>
    ELSE (IF i \in keep THEN <<s[i]>> ELSE <<>>) \o FilterFrom(s, keep, i + 1)

(***************************************************************************)
(* fetchBaseData: the record built from one parsed CSV row.  The fields    *)
(* serie, dataBaixa, prazoParaBaixaDias, prazoBaixa and numeroMdfe are     *)
(* read by no code of the tables and are left out of the record.           *)
(***************************************************************************)
\* a value text beyond the largest double
Overflowing == <<"1", ZeroRun>>
\* the candidate column names of each field
CteKeys == << <<"C", "T", "E">> >>
DataKeys ==
    << <<"D", "A", "T", "A", " ", "E", "M", "I", "S", "S", "A", "O">>,
       <<"D", "A", "T", "A", "_", "E", "M", "I", "S", "S", "A", "O">>,
       <<"D", "A", "T", "A", " ", "(", "d", "d", "/", "m", "/", "a", "a", "a", "a", ")">>,
       <<"D", "A", "T", "A", " ", "(", "d", "d", "/", "m", "m", "/", "a", "a", "a", "a", ")">>,
       <<"D", "A", "T", "A">>,
       <<"D", "a", "t", "a">>,
       <<"d", "a", "t", "a">> >>
StatusPrazoKeys == << <<"S", "T", "A", "T", "U", "S", " ", "P", "R", "A", "Z", "O">> >>
ColetaKeys == << <<"C", "O", "L", "E", "T", "A">> >>
EntregaKeys == << <<"E", "N", "T", "R", "E", "G", "A">> >>
StatusMdfeKeys == << <<"S", "T", "A", "T", "U", "S", " ", "M", "D", "F", "E">> >>
ValorCteKeys ==
    << <<"V", "A", "L", "O", "R", "_", "C", "T", "E">>,
       <<"V", "A", "L", "O", "R", " ", "C", "T", "E">>,
       <<"V", "A", "L", "O", "R">> >>
\* parseCurrency(getValue(row, [...], 11) || '0')
ValorCteOf(fields, row) ==
    LET text == getValue(fields, row, ValorCteKeys, 11)
    IN  parseCurrency(IF text = <<>> THEN <<"0">> ELSE text)
\* the callback of results.data.map
CteOfRow(fields, row) ==
    [cte |-> getValue(fields, row, CteKeys, 0),
     data |-> getValue(fields, row, DataKeys, 2),
     statusPrazo |-> normalizeString(getValue(fields, row, StatusPrazoKeys, 6)),
     coleta |-> normalizeString(getValue(fields, row, ColetaKeys, 7)),
     entrega |-> normalizeString(getValue(fields, row, EntregaKeys, 8)),
     statusMdfe |-> normalizeString(getValue(fields, row, StatusMdfeKeys, 10)),
     valorCte |-> ValorCteOf(fields, row)]

\* inputs: header rows and cells of a CSV export
BaseHeaders ==
    { <<"V", "A", "L", "O", "R">>, <<"V", "a", "l", "o", "r", " ", " ", "C", "t", "e">>, <<"C", "O", "L", "E", "T", "A">>, <<"d", "a", "t", "a">>,
      <<"X">> }
BaseCells ==
    { <<>>, <<"1">>, <<"-", "1">>, <<"1", ",", "1">>, <<"R">>, <<"a">>, Overflowing }
BaseFieldLists ==
    UNION { { f \in [1..n -> BaseHeaders] : \A i, j \in 1..n : i # j => f[i] # f[j] }
            : n \in 0..MaxCols }
BaseRowsOf(fields) ==
    { [i \in 1..Len(fields) |-> [key |-> fields[i], val |-> c[i]]]
          : c \in [1..Len(fields) -> BaseCells] }

InitBase ==
    /\ \E f \in BaseFieldLists : \E r \in BaseRowsOf(f) :
           baseArgs = [fields |-> f, row |-> r]
    /\ baseOut = NoRows
    /\ IdleHelpers /\ IdleGv /\ IdleMt /\ IdleDt /\ IdleDash /\ IdleLoad
\* one row of results.data goes through the callback
MapRow ==
    /\ ~baseOut.done
    /\ baseOut' = [done |-> TRUE, rows |-> <<CteOfRow(baseArgs.fields, baseArgs.row)>>]
    /\ UNCHANGED <<baseArgs, helperVars, gvVars, mtVars, dtVars, dashVars, loadVars>>
SpecBase == InitBase /\ [][MapRow]_vars

(***************************************************************************)
(* ManagerialTable: the ranking of the units.                              *)
(***************************************************************************)
\* the Set of units in insertion order: coleta, then entrega, of each record
AddUnit(units, u) ==
    IF u = <<>> \/ (\E i \in 1..Len(units) : units[i] = u) THEN units
    ELSE Append(units, u)
RECURSIVE UnitsFrom(_, _, _)
UnitsFrom(data, i, units) ==
    IF i > Len(data) THEN units
    ELSE UnitsFrom(data, i + 1, AddUnit(AddUnit(units, data[i].coleta), data[i].entrega))
\* a faulty variant of Units: only the pickup units
Units_ColetaOnly(data) ==
    LET RECURSIVE From(_, _)
        From(i, units) ==
            IF i > Len(data) THEN units ELSE From(i + 1, AddUnit(units, data[i].coleta))
    IN  From(1, <<>>)
Units(data) == UnitsFrom(data, 1, <<>>)

\* data.filter(d => d.coleta === unit)
VendasDocs(data, unit) ==
    FilterFrom(data, {i \in 1..Len(data) : data[i].coleta = unit}, 1)
\* a faulty variant of BaixasDocs: the records picked up by the unit
BaixasDocs_ByColeta(data, unit) ==
    FilterFrom(data, {i \in 1..Len(data) : data[i].coleta = unit}, 1)
\* data.filter(d => d.entrega === unit)
BaixasDocs(data, unit) ==
    FilterFrom(data, {i \in 1..Len(data) : data[i].entrega = unit}, 1)

\* docs.reduce((acc, curr) => acc + curr.valorCte, 0)
RECURSIVE SumValorCte(_, _, _)
SumValorCte(docs, i, acc) ==
    IF i > Len(docs) THEN acc ELSE SumValorCte(docs, i + 1, NumAdd(acc, docs[i].valorCte))
\* a faulty variant of VendasTotal: the last record is left out
VendasTotal_DropLast(docs) ==
    IF docs = <<>> THEN Zero ELSE SumValorCte(SubSeq(docs, 1, Len(docs) - 1), 1, Zero)
VendasTotal(docs) == SumValorCte(docs, 1, Zero)

\* x || 0 on a number
NumOrZero(x) == IF x.k = "nan" \/ (x.k = "fin" /\ x.n = 0) THEN Zero ELSE x
\* a faulty variant of MetaOf: the last matching target
MetaOf_Last(meta, unit) ==
    LET hits == {i \in 1..Len(meta) : meta[i].agencia = unit}
    IN  IF hits = {} THEN Zero
        ELSE NumOrZero(meta[CHOOSE i \in hits : \A j \in hits : j <= i].meta)
\* meta.find(m => m.agencia === unit)?.meta || 0
MetaOf(meta, unit) ==
    LET hits == {i \in 1..Len(meta) : meta[i].agencia = unit}
    IN  IF hits = {} THEN Zero
        ELSE NumOrZero(meta[CHOOSE i \in hits : \A j \in hits : i <= j].meta)

\* docs.filter(d => d.statusMdfe === s).length, and the same on statusPrazo
CountMdfe(docs, s) == Cardinality({i \in 1..Len(docs) : docs[i].statusMdfe = s})
CountPrazo(docs, s) == Cardinality({i \in 1..Len(docs) : docs[i].statusPrazo = s})
\* total > 0 ? (count / total) * 100 : 0
Percent(count, total) ==
    IF total > 0 THEN NumMul(NumDiv(Int2Num(count), Int2Num(total)), Int2Num(100))
    ELSE Zero
\* metaVal > 0 ? (projected / metaVal) * 100 : 0
ProjectionPct(projected, metaVal) ==
    IF NumPositive(metaVal) THEN NumMul(NumDiv(projected, metaVal), Int2Num(100))
    ELSE Zero

\* the object pushed for one unit, from the values computed for it
StatOf(unit, vendasDocs, vendasTotal, projected, metaVal, baixasDocs) ==
    [unit |-> unit,
     vendasTotal |-> vendasTotal,
     projected |-> projected,
     metaVal |-> metaVal,
     projectionPct |-> ProjectionPct(projected, metaVal),
     semMdfe |-> CountMdfe(vendasDocs, "SEM MDFE"),
     semMdfePct |-> Percent(CountMdfe(vendasDocs, "SEM MDFE"), Len(vendasDocs)),
     totalManifestos |-> Len(vendasDocs),
     noPrazo |-> CountPrazo(baixasDocs, "NO PRAZO"),
     noPrazoPct |-> Percent(CountPrazo(baixasDocs, "NO PRAZO"), Len(baixasDocs)),
     foraPrazo |-> CountPrazo(baixasDocs, "FORA DO PRAZO"),
     foraPrazoPct |-> Percent(CountPrazo(baixasDocs, "FORA DO PRAZO"), Len(baixasDocs)),
     semBaixa |-> CountPrazo(baixasDocs, "SEM BAIXA"),
     semBaixaPct |-> Percent(CountPrazo(baixasDocs, "SEM BAIXA"), Len(baixasDocs)),
     totalBaixas |-> Len(baixasDocs)]
\* the body of units.forEach for one unit
UnitStat(unit, p) ==
    LET vendasDocs == VendasDocs(p.data, unit)
        vendasTotal == VendasTotal(vendasDocs)
    IN  StatOf(unit, vendasDocs, vendasTotal,
               calculateProjection(vendasTotal, p.datas, p.startDate, p.endDate),
               MetaOf(p.meta, unit), BaixasDocs(p.data, unit))

\* the fields of a UnitStat holding percentages and amounts (numbers of the
\* model) and those holding counts (integers)
NumFields == {"vendasTotal", "projected", "metaVal", "projectionPct",
              "semMdfePct", "noPrazoPct", "foraPrazoPct", "semBaixaPct"}
CountFields == {"semMdfe", "totalManifestos", "noPrazo", "foraPrazo", "semBaixa",
                "totalBaixas"}
\* a[sortKey] as a number
StatValue(a, field) == IF field \in CountFields THEN Int2Num(a[field]) ELSE a[field]

\* a faulty variant of DefaultSortKey: the deadline view ignores the filter
DefaultSortKey_IgnoreFilter(activeTab, activeFilter) ==
    IF activeTab = "MANIFESTOS" THEN "semMdfePct"
    ELSE IF activeTab = "BAIXAS" THEN "semBaixaPct"
    ELSE "projectionPct"
\* the sort key chosen when no manual sort is active
DefaultSortKey(activeTab, activeFilter) ==
    IF activeTab = "MANIFESTOS" THEN "semMdfePct"
    ELSE IF activeTab = "BAIXAS"
         THEN (IF activeFilter = "NO PRAZO" THEN "noPrazoPct"
               ELSE IF activeFilter = "FORA DO PRAZO" THEN "foraPrazoPct"
               ELSE "semBaixaPct")
    ELSE "projectionPct"

\* String.prototype.localeCompare on unit names: letters in alphabetical
\* order, a proper prefix first
RECURSIVE LocaleCompare(_, _)
LocaleCompare(a, b) ==
    IF a = <<>> /\ b = <<>> THEN 0
    ELSE IF a = <<>> THEN -1
    ELSE IF b = <<>> THEN 1
    ELSE IF Head(a) = Head(b) THEN LocaleCompare(Tail(a), Tail(b))
    ELSE LET rank(c) == CHOOSE i \in 1..3 : <<"A", "B", "C">>[i] = c
         IN  IF rank(Head(a)) < rank(Head(b)) THEN -1 ELSE 1

\* the comparator of the ranking
CompareStats(a, b, sortKey, direction) ==
    IF sortKey = "unit"
    THEN IF a.unit = b.unit THEN 0
         ELSE IF direction = "asc" THEN LocaleCompare(a.unit, b.unit)
         ELSE LocaleCompare(b.unit, a.unit)
    ELSE LET valA == StatValue(a, sortKey)
             valB == StatValue(b, sortKey)
         IN  IF NumStrictEquals(valA, valB) THEN 0
             ELSE IF direction = "asc" THEN ComparatorSign(NumSub(valA, valB))
             ELSE ComparatorSign(NumSub(valB, valA))

\* a faulty variant of SortStats: equal rows come out in reverse order
SortStats_Reversed(stats, sortKey, direction) ==
    LET n == Len(stats)
        rev == [i \in 1..n |-> stats[n + 1 - i]]
    IN  ArraySort(rev, [ij \in (1..n) \X (1..n) |->
                          CompareStats(rev[ij[1]], rev[ij[2]], sortKey, direction)])
\* stats.sort((a, b) => ...) with the sort key and direction in force
SortStats(stats, sortKey, direction) ==
    ArraySort(stats, [ij \in (1..Len(stats)) \X (1..Len(stats)) |->
                          CompareStats(stats[ij[1]], stats[ij[2]], sortKey, direction)])
\* the stats array before it is sorted, in the order of the Set of units
StatsOf(units, p) == [i \in 1..Len(units) |-> UnitStat(units[i], p)]
\* the useMemo of unitStats
UnitStats(p, sort) ==
    IF sort.sortField # "null"
    THEN SortStats(StatsOf(Units(p.data), p), sort.sortField, sort.sortDirection)
    ELSE SortStats(StatsOf(Units(p.data), p),
                   DefaultSortKey(p.activeTab, p.activeFilter), "desc")

\* the column headers that can be clicked in each view
SortableFields(activeTab, activeFilter) ==
    {"unit"} \cup
    IF activeTab = "MANIFESTOS" THEN {"totalManifestos", "semMdfe", "semMdfePct"}
    ELSE IF activeTab = "BAIXAS"
         THEN {"totalBaixas"} \cup
              (IF activeFilter = "NO PRAZO" THEN {"noPrazo", "noPrazoPct"}
               ELSE IF activeFilter = "FORA DO PRAZO" THEN {"foraPrazo", "foraPrazoPct"}
               ELSE {"semBaixa", "semBaixaPct"})
    ELSE {"vendasTotal", "projected", "metaVal", "projectionPct"}

\* inputs of the ranking: shipment records as the loader produces them
MaxRecords == 2
UnitA == <<"A">>
UnitB == <<"B">>
UnitC == <<"C">>
CteRecord(cte, data, coleta, entrega, valorText, statusMdfe, statusPrazo) ==
    [cte |-> cte, data |-> data, coleta |-> coleta, entrega |-> entrega,
     valorCte |-> parseCurrency(valorText), statusMdfe |-> statusMdfe,
     statusPrazo |-> statusPrazo]
RecordPool ==
    { CteRecord(<<"1">>, FormatDMY(Mar(4)), UnitA, <<>>, <<"1">>, "SEM MDFE", "NO PRAZO"),
      CteRecord(<<"2">>, FormatDMY(Mar(1)), UnitA, UnitA, <<"1", ",", "1">>, "COM MDFE", "SEM BAIXA"),
      CteRecord(<<"3">>, FormatDMY(Mar(5)), <<>>, UnitB, <<"1", "1">>, "", "FORA DO PRAZO"),
      CteRecord(<<"4">>, <<>>, UnitB, UnitC, Overflowing, "SEM MDFE", ""),
      CteRecord(<<"5">>, Garbage, UnitA, UnitC, <<>>, "OUTRO", "NO PRAZO") }
RecordLists == UNION { [1..n -> RecordPool] : n \in 0..MaxRecords }
MetaRecord(agencia, metaText) == [agencia |-> agencia, meta |-> parseCurrency(metaText)]
MetaLists ==
    { << MetaRecord(UnitA, <<"1", "1">>), MetaRecord(UnitA, <<"1">>),
         MetaRecord(UnitB, <<"1", "1", "1">>) >>,
      << MetaRecord(UnitB, <<>>), MetaRecord(UnitB, <<"1">>), MetaRecord(UnitC, <<"-", "1">>) >> }
\* a calendar with 2 elapsed business days out of 3
RankingConfig ==
    [dataInicial |-> FormatDMY(Mar(4)), dataFinal |-> FormatDMY(Mar(6)),
     dataAtual |-> FormatDMY(Mar(5)), feriados |-> <<>>]
TabFilters ==
    { <<"VENDAS", "TODOS">>, <<"BAIXAS", "TODOS">>, <<"BAIXAS", "SEM BAIXA">>,
      <<"BAIXAS", "FORA DO PRAZO">>, <<"BAIXAS", "NO PRAZO">>,
      <<"MANIFESTOS", "TODOS">>, <<"MANIFESTOS", "COM MDFE">> }

InitMt ==
    /\ \E d \in RecordLists : \E m \in MetaLists : \E tf \in TabFilters :
           mtProps = [data |-> d, meta |-> m, datas |-> RankingConfig, activeTab |-> tf[1],
                      activeFilter |-> tf[2], startDate |-> <<>>, endDate |-> <<>>]
    /\ mtSort = [sortField |-> "null", sortDirection |-> "desc"]
    /\ unitStats = NoRows
    /\ IdleHelpers /\ IdleGv /\ IdleDt /\ IdleApp
\* the first render computes the ranking; the dashboard shows a table only
\* under a tab other than NONE
RenderManagerialTable ==
    /\ mtProps.activeTab # "NONE" /\ ~unitStats.done
    /\ unitStats' = [done |-> TRUE, rows |-> UnitStats(mtProps, mtSort)]
    /\ UNCHANGED <<mtProps, mtSort, helperVars, gvVars, dtVars, appVars>>
\* a click on a column header: handleSort, then the ranking is recomputed
MtHandleSort ==
    /\ unitStats.done
    /\ \E field \in SortableFields(mtProps.activeTab, mtProps.activeFilter) :
           /\ mtSort' = IF mtSort.sortField = field
                        THEN [mtSort EXCEPT !.sortDirection =
                                  IF mtSort.sortDirection = "asc" THEN "desc" ELSE "asc"]
                        ELSE [sortField |-> field, sortDirection |-> "desc"]
           /\ unitStats' = [done |-> TRUE, rows |-> UnitStats(mtProps, mtSort')]
    /\ UNCHANGED <<mtProps, helperVars, gvVars, dtVars, appVars>>
NextMt == RenderManagerialTable \/ MtHandleSort
SpecRanking == InitMt /\ [][NextMt]_vars

(***************************************************************************)
(* DetailTable: the record-level view.                                     *)
(***************************************************************************)
\* parseDate(text)?.getTime() || 0: null, an Invalid Date and the epoch give 0
TimeOrZero(text) ==
    LET d == parseDate(text) IN IF d.k = "date" THEN d.t ELSE 0

\* the statusPriority tables with their `?? n` defaults
\* a faulty variant of PrazoPriority: NO PRAZO comes first
PrazoPriority_OnTimeFirst(status) ==
    IF status = "NO PRAZO" THEN 0
    ELSE IF status = "FORA DO PRAZO" THEN 1
    ELSE IF status = "SEM BAIXA" THEN 2
    ELSE 3
PrazoPriority(status) ==
    IF status = "SEM BAIXA" THEN 0
    ELSE IF status = "FORA DO PRAZO" THEN 1
    ELSE IF status = "NO PRAZO" THEN 2
    ELSE 3
MdfePriority(status) ==
    IF status = "SEM MDFE" THEN 0
    ELSE IF status = "COM MDFE" THEN 1
    ELSE 2

\* the sign of an integer comparator result
IntSign(i) == IF i > 0 THEN 1 ELSE IF i < 0 THEN -1 ELSE 0

\* the comparators of the default order of each view
CompareDefault(a, b, type) ==
    LET byDate == IntSign(TimeOrZero(a.data) - TimeOrZero(b.data))
    IN  IF type = "VENDAS" THEN byDate
        ELSE IF type = "BAIXAS"
             THEN (IF PrazoPriority(a.statusPrazo) # PrazoPriority(b.statusPrazo)
                   THEN IntSign(PrazoPriority(a.statusPrazo) - PrazoPriority(b.statusPrazo))
                   ELSE byDate)
        ELSE IF type = "MANIFESTOS"
             THEN (IF MdfePriority(a.statusMdfe) # MdfePriority(b.statusMdfe)
                   THEN IntSign(MdfePriority(a.statusMdfe) - MdfePriority(b.statusMdfe))
                   ELSE byDate)
        ELSE 0

\* String.prototype.toLowerCase and the < of strings, by UTF-16 code unit
LowerChar(c) ==
    IF c = "A" THEN "a" ELSE IF c = "B" THEN "b" ELSE IF c = "C" THEN "c" ELSE c
ToLowerCase(s) == [i \in 1..Len(s) |-> LowerChar(s[i])]
CodeUnitOrder ==
    <<" ", "/", "0", "1", "2", "3", "4", "5", "6", "7", "8", "9", "A", "B", "C",
      "a", "b", "c">>
CodeUnitRank(c) == CHOOSE i \in 1..Len(CodeUnitOrder) : CodeUnitOrder[i] = c
RECURSIVE StringLess(_, _)
StringLess(a, b) ==
    IF b = <<>> THEN FALSE
    ELSE IF a = <<>> THEN TRUE
    ELSE IF Head(a) = Head(b) THEN StringLess(Tail(a), Tail(b))
    ELSE CodeUnitRank(Head(a)) < CodeUnitRank(Head(b))

\* the fields of a record holding text, and the one holding a number
TextFields == {"cte", "data", "coleta", "entrega"}
\* sortField.includes('data') || sortField === 'prazoBaixa'
IsDateField(sortField) == sortField \in {"data", "dataBaixa", "prazoBaixa"}

\* the comparator of the manual order; no field of a loaded record is null
\* or undefined, so the two tests for them never fire
CompareManual(a, b, sortField, sortDirection) ==
    LET va == a[sortField]
        vb == b[sortField]
        dir(s) == IF sortDirection = "asc" THEN s ELSE -s
    IN  IF sortField = "valorCte"
        THEN (IF NumStrictEquals(va, vb) THEN 0 ELSE dir(ComparatorSign(NumSub(va, vb))))
        ELSE IF va = vb THEN 0
        ELSE IF IsDateField(sortField)
             THEN dir(IntSign(TimeOrZero(va) - TimeOrZero(vb)))
        ELSE LET sa == ToLowerCase(va)
                 sb == ToLowerCase(vb)
             IN  IF StringLess(sa, sb) THEN dir(-1)
                 ELSE IF StringLess(sb, sa) THEN dir(1)
                 ELSE 0

\* a faulty variant of FilterByStatus: the manifest view filters on the
\* deadline status
FilterByStatus_AlwaysPrazo(data, type, statusFilter) ==
    IF type \in {"BAIXAS", "MANIFESTOS"} /\ statusFilter # "TODOS"
    THEN FilterFrom(data, {i \in 1..Len(data) : data[i].statusPrazo = statusFilter}, 1)
    ELSE data
\* step 1 of processedData
FilterByStatus(data, type, statusFilter) ==
    IF type = "BAIXAS" /\ statusFilter # "TODOS"
    THEN FilterFrom(data, {i \in 1..Len(data) : data[i].statusPrazo = statusFilter}, 1)
    ELSE IF type = "MANIFESTOS" /\ statusFilter # "TODOS"
    THEN FilterFrom(data, {i \in 1..Len(data) : data[i].statusMdfe = statusFilter}, 1)
    ELSE data

\* the useMemo of processedData
ProcessedData(p, st) ==
    LET filtered == FilterByStatus(p.data, p.type, st.statusFilter)
        n == Len(filtered)
        cmp == [ij \in (1..n) \X (1..n) |->
                    IF st.sortField = "null"
                    THEN CompareDefault(filtered[ij[1]], filtered[ij[2]], p.type)
                    ELSE CompareManual(filtered[ij[1]], filtered[ij[2]],
                                       st.sortField, st.sortDirection)]
    IN  ArraySort(filtered, cmp)

\* a faulty variant of DataAfterRender: `filtered` is the array of the prop
\* itself, sorted in place unless a status filter made a new array
DataAfterRender_SortInPlace(p, st) ==
    IF p.type \in {"BAIXAS", "MANIFESTOS"} /\ st.statusFilter # "TODOS" THEN p.data
    ELSE ProcessedData(p, st)
\* the array of the `data` prop after the useMemo ran: `[...data]` is a copy,
\* and filter and sort act on the copy
DataAfterRender(p, st) == p.data

\* the column headers of each view, among the fields of the model
DetailHeaders(type) ==
    {"cte", "data", "coleta", "valorCte"} \cup (IF type = "BAIXAS" THEN {} ELSE {"entrega"})
\* the options of the status dropdown of each view
StatusOptions(type) ==
    IF type = "BAIXAS" THEN {"TODOS", "NO PRAZO", "FORA DO PRAZO", "SEM BAIXA"}
    ELSE IF type = "MANIFESTOS" THEN {"TODOS", "COM MDFE", "SEM MDFE"}
    ELSE {}

\* inputs of the record-level view: the view with the filter handed down by
\* the dashboard, "" when there is none
DetailTypeFilters ==
    TabFilters \cup { <<"VENDAS", "SEM BAIXA">>, <<"MANIFESTOS", "SEM MDFE">>,
                      <<"MANIFESTOS", "NO PRAZO">>, <<"BAIXAS", "">> }

InitDt ==
    /\ \E d \in RecordLists : \E tf \in DetailTypeFilters :
           dtProps = [data |-> d, type |-> tf[1], initialFilter |-> tf[2]]
    /\ dtState = [statusFilter |-> "TODOS", sortField |-> "null", sortDirection |-> "asc"]
    /\ processedData = NoRows
    /\ IdleHelpers /\ IdleGv /\ IdleMt /\ IdleApp
\* the mount: first render, then the effect copies a truthy initialFilter
MountDetailTable ==
    /\ dtProps.type # "NONE" /\ ~processedData.done
    /\ dtState' = [dtState EXCEPT !.statusFilter =
                       IF dtProps.initialFilter # "" THEN dtProps.initialFilter ELSE @]
    /\ processedData' = [done |-> TRUE, rows |-> ProcessedData(dtProps, dtState')]
    /\ dtProps' = [dtProps EXCEPT !.data = DataAfterRender(dtProps, dtState')]
    /\ UNCHANGED <<helperVars, gvVars, mtVars, appVars>>
\* a choice in the status dropdown
DtSetStatusFilter ==
    /\ processedData.done
    /\ \E f \in StatusOptions(dtProps.type) :
           /\ dtState' = [dtState EXCEPT !.statusFilter = f]
           /\ processedData' = [done |-> TRUE, rows |-> ProcessedData(dtProps, dtState')]
    /\ dtProps' = [dtProps EXCEPT !.data = DataAfterRender(dtProps, dtState')]
    /\ UNCHANGED <<helperVars, gvVars, mtVars, appVars>>
\* a faulty variant of DetailSortAfter: a new field keeps the direction
DetailSortAfter_KeepDirection(st, field) ==
    IF st.sortField = field
    THEN [st EXCEPT !.sortDirection = IF st.sortDirection = "asc" THEN "desc" ELSE "asc"]
    ELSE [st EXCEPT !.sortField = field]
\* the sort state handleSort(field) leaves
DetailSortAfter(st, field) ==
    IF st.sortField = field
    THEN [st EXCEPT !.sortDirection = IF st.sortDirection = "asc" THEN "desc" ELSE "asc"]
    ELSE [st EXCEPT !.sortField = field, !.sortDirection = "asc"]
\* a click on a column header: handleSort
DtHandleSort ==
    /\ processedData.done
    /\ \E field \in DetailHeaders(dtProps.type) :
           /\ dtState' = DetailSortAfter(dtState, field)
           /\ processedData' = [done |-> TRUE, rows |-> ProcessedData(dtProps, dtState')]
    /\ dtProps' = [dtProps EXCEPT !.data = DataAfterRender(dtProps, dtState')]
    /\ UNCHANGED <<helperVars, gvVars, mtVars, appVars>>
NextDt == MountDetailTable \/ DtSetStatusFilter \/ DtHandleSort
SpecDetail == InitDt /\ [][NextDt]_vars

(***************************************************************************)
(* Dashboard: the selected unit, the active tab and filter, and the        *)
(* record-level table it shows.  The date inputs are left empty, so        *)
(* filteredData is data.base; the ranking shown in the managerial view     *)
(* keeps its own sort state (SpecRanking) and acts on the dashboard only   *)
(* through onSelectUnit and onFilterChange.                                *)
(***************************************************************************)
isGlobalUser(unidade) == unidade = <<>>
isManagerialView(unidade, d) == isGlobalUser(unidade) /\ d.selectedUnit = <<>>
\* the records of a tab for the unit context: getTableData over metrics
getTableData(base, d) ==
    IF d.activeTab \in {"VENDAS", "MANIFESTOS"}
    THEN SelectSeq(base, LAMBDA r : d.selectedUnit = <<>> \/ r.coleta = d.selectedUnit)
    ELSE IF d.activeTab = "BAIXAS"
         THEN SelectSeq(base, LAMBDA r : d.selectedUnit = <<>> \/ r.entrega = d.selectedUnit)
    ELSE <<>>
\* manifestosStats of the metrics, for a unit context ('' is all units)
ManifestosStats(filteredData, unitContext) ==
    LET manifestosData ==
            SelectSeq(filteredData, LAMBDA r : unitContext = <<>> \/ r.coleta = unitContext)
        com == CountMdfe(manifestosData, "COM MDFE")
        sem == CountMdfe(manifestosData, "SEM MDFE")
    IN  [com |-> com, sem |-> sem, total |-> com + sem]
\* the percentage of getManifestosStatus and of the sub-card: 0 of no documents
\* counts as 0
CardSemMdfePct(stats) == Percent(stats.sem, stats.total)
\* handleFilterClick
FilterClickAfter(d, tab, filter) == [d EXCEPT !.activeTab = tab, !.activeFilter = filter]
\* a faulty variant of MainCardAfter: another tab is shown with the filter kept
MainCardAfter_KeepFilter(d, tab) ==
    IF d.activeTab = tab THEN [d EXCEPT !.activeTab = "NONE", !.activeFilter = "TODOS"]
    ELSE [d EXCEPT !.activeTab = tab]
\* handleMainCardClick
MainCardAfter(d, tab) ==
    IF d.activeTab = tab THEN [d EXCEPT !.activeTab = "NONE", !.activeFilter = "TODOS"]
    ELSE [d EXCEPT !.activeTab = tab, !.activeFilter = "TODOS"]
\* selectUnit and clearSelection
selectUnit(d, unit) ==
    [selectedUnit |-> unit, activeTab |-> "NONE", activeFilter |-> "TODOS"]
clearSelection(d) ==
    [selectedUnit |-> <<>>, activeTab |-> "NONE", activeFilter |-> "TODOS"]
\* a faulty variant of HomeClickAfter: the selection is cleared for every user
HomeClickAfter_Unguarded(unidade, d) == clearSelection(d)
\* handleHomeClick
HomeClickAfter(unidade, d) == IF isGlobalUser(unidade) THEN clearSelection(d) ELSE d
\* the options of the dropdown of the ranking
RankingFilterOptions(activeTab) ==
    IF activeTab = "BAIXAS" THEN {"TODOS", "SEM BAIXA", "FORA DO PRAZO", "NO PRAZO"}
    ELSE IF activeTab = "MANIFESTOS" THEN {"TODOS", "SEM MDFE", "COM MDFE"}
    ELSE {}
\* the sub-cards of the deadline card and of the manifest card
SubCards ==
    { <<"BAIXAS", "NO PRAZO">>, <<"BAIXAS", "FORA DO PRAZO">>, <<"BAIXAS", "SEM BAIXA">>,
      <<"MANIFESTOS", "COM MDFE">>, <<"MANIFESTOS", "SEM MDFE">> }

\* the record-level table is rendered under a tab, outside the managerial view
DetailShown(unidade, d) == d.activeTab # "NONE" /\ ~isManagerialView(unidade, d)
DetailInitialState == [statusFilter |-> "TODOS", sortField |-> "null", sortDirection |-> "asc"]
\* the state of the record-level table after a render of the dashboard: a
\* table that stays mounted keeps its state, and the effect copies
\* initialFilter on the mount and when initialFilter changed
DetailStateAfter(shownBefore, shownAfter, st, oldFilter, newFilter) ==
    IF ~shownAfter THEN DetailInitialState
    ELSE IF ~shownBefore
         THEN [DetailInitialState EXCEPT !.statusFilter = IF newFilter # "" THEN newFilter ELSE @]
    ELSE IF newFilter # oldFilter /\ newFilter # ""
         THEN [st EXCEPT !.statusFilter = newFilter]
    ELSE st
\* the dashboard takes the state d2 and renders
DashboardRenders(d2) ==
    /\ dash' = d2
    /\ dtState' = DetailStateAfter(DetailShown(dashUser, dash), DetailShown(dashUser, d2),
                                   dtState, dash.activeFilter, d2.activeFilter)
    /\ dtProps' = IF DetailShown(dashUser, d2)
                  THEN [data |-> getTableData(dashData, d2), type |-> d2.activeTab,
                        initialFilter |-> d2.activeFilter]
                  ELSE [data |-> <<>>, type |-> "NONE", initialFilter |-> ""]
    /\ processedData' = IF DetailShown(dashUser, d2)
                        THEN [done |-> TRUE, rows |-> ProcessedData(dtProps', dtState')]
                        ELSE NoRows
    /\ UNCHANGED <<dashUser, dashData, helperVars, gvVars, mtVars, baseVars, loadVars>>

\* inputs: a user with a unit or without, and the records loaded
RecordOf(cte) == CHOOSE r \in RecordPool : r.cte = cte
DashUnits == {<<>>, UnitA, UnitB}
DashBases ==
    { <<RecordOf(<<"1">>), RecordOf(<<"2">>), RecordOf(<<"5">>)>>,
      <<RecordOf(<<"3">>), RecordOf(<<"4">>)>> }
InitDash ==
    /\ dashUser \in DashUnits /\ dashData \in DashBases
    /\ dash = [selectedUnit |-> dashUser, activeTab |-> "NONE", activeFilter |-> "TODOS"]
    /\ IdleHelpers /\ IdleGv /\ IdleMt /\ IdleDt /\ IdleBase /\ IdleLoad
\* a click on the card of sales, deadlines or manifests; the projection card
\* calls the same handler with VENDAS in the managerial view
HandleMainCardClick ==
    \E tab \in {"VENDAS", "BAIXAS", "MANIFESTOS"} : DashboardRenders(MainCardAfter(dash, tab))
\* a click on a status sub-card
HandleFilterClick ==
    \E tf \in SubCards : DashboardRenders(FilterClickAfter(dash, tf[1], tf[2]))
\* a click on a suggestion of the search bar, shown to global users only
SuggestionClick ==
    /\ isGlobalUser(dashUser)
    /\ \E i \in 1..Len(Units(dashData)) : DashboardRenders(selectUnit(dash, Units(dashData)[i]))
\* a click on a row of the ranking: onSelectUnit
RankingRowClick ==
    /\ dash.activeTab # "NONE" /\ isManagerialView(dashUser, dash)
    /\ \E i \in 1..Len(Units(dashData)) : DashboardRenders(selectUnit(dash, Units(dashData)[i]))
\* a choice in the dropdown of the ranking: onFilterChange
RankingFilterChange ==
    /\ isManagerialView(dashUser, dash)
    /\ \E f \in RankingFilterOptions(dash.activeTab) :
           DashboardRenders([dash EXCEPT !.activeFilter = f])
\* a click on the home icon
HandleHomeClick ==
    DashboardRenders(HomeClickAfter(dashUser, dash))
NextDash ==
    \/ HandleMainCardClick \/ HandleFilterClick \/ SuggestionClick \/ RankingRowClick
    \/ RankingFilterChange \/ HandleHomeClick \/ DtSetStatusFilter \/ DtHandleSort
SpecDashboard == InitDash /\ [][NextDash]_vars

(***************************************************************************)
(* App: the load of the four sheets, the login and the routes.             *)
(***************************************************************************)
\* the outcomes of a fetch: fetchBaseData and fetchMeta resolve in every case
\* (their parse errors resolve []), fetchUsers and fetchDatasConfig reject
\* when the parser reports an error to the promise fetchCsv returned
CanReject == {"users", "datas"}
UserRecord(usuario, senha, unidade) ==
    [loggedIn |-> TRUE, usuario |-> usuario, senha |-> senha, unidade |-> unidade]
UserLists ==
    { <<>>,
      << UserRecord(<<"a">>, <<"1">>, UnitA), UserRecord(<<"B">>, <<"2">>, <<>>),
         UserRecord(<<"A">>, <<"2">>, UnitB) >> }
FetchResults(f) ==
    IF f = "users" THEN UserLists
    ELSE IF f = "base" THEN {<<>>} \cup DashBases
    ELSE IF f = "meta" THEN {<<>>} \cup MetaLists
    ELSE {[isNull |-> FALSE, v |-> RankingConfig], [isNull |-> FALSE, v |-> NoConfig]}
\* what is typed into the login form
Credentials ==
    { <<<<"a">>, <<"1">>>>, <<<<" ", "A">>, <<"2", " ">>>>, <<<<"b">>, <<"2">>>>,
      <<<<"a">>, <<"2">>>>, <<<<>>, <<>>>> }

\* a faulty variant of AppDataAfterLoad: what has arrived is stored
AppDataAfterLoad_Partial(appData, ld) ==
    [f \in FetchNames |-> IF ld.st[f] = "resolved" THEN ld.val[f] ELSE appData[f]]
\* appData after `await Promise.all([...])`: setAppData runs only when all
\* four promises resolved
AppDataAfterLoad(appData, ld) ==
    IF \A f \in FetchNames : ld.st[f] = "resolved" THEN ld.val ELSE appData
\* users.find(u => ...) of handleLogin
FindUser(users, username, password) ==
    LET cleanUser == Trim(username)
        cleanPass == Trim(password)
        hits == {i \in 1..Len(users) :
                     /\ ToLowerCase(users[i].usuario) = ToLowerCase(cleanUser)
                     /\ users[i].senha = cleanPass}
    IN  IF hits = {} THEN NoUser ELSE users[CHOOSE i \in hits : \A j \in hits : i <= j]
\* the route after a render: "/" without a user navigates to "/login"
RouteShown(route, user) == IF route = "/" /\ ~user.loggedIn THEN "/login" ELSE route
\* what App renders
LoginShown == ~app.isLoading /\ app.route = "/login"
DashboardShown == ~app.isLoading /\ app.route = "/" /\ app.user.loggedIn

InitApp ==
    /\ app = [user |-> NoUser, isLoading |-> FALSE, appData |-> InitialAppData,
              route |-> "/login"]
    /\ load = [pc |-> "mounted", st |-> [f \in FetchNames |-> "none"],
               val |-> InitialAppData]
    /\ IdleHelpers /\ IdleGv /\ IdleMt /\ IdleDt /\ IdleBase /\ IdleDash
\* the effect of the mount: loadInitialData up to its await
LoadInitialData ==
    /\ load.pc = "mounted"
    /\ app' = [app EXCEPT !.isLoading = TRUE]
    /\ load' = [load EXCEPT !.pc = "loading", !.st = [f \in FetchNames |-> "pending"]]
    /\ UNCHANGED <<helperVars, gvVars, mtVars, dtVars, baseVars, dashVars>>
\* one of the four promises settles
FetchSettles ==
    /\ \E f \in FetchNames :
           /\ load.st[f] = "pending"
           /\ \/ \E v \in FetchResults(f) :
                     load' = [load EXCEPT !.st[f] = "resolved", !.val[f] = v]
              \/ /\ f \in CanReject
                 /\ load' = [load EXCEPT !.st[f] = "rejected"]
    /\ UNCHANGED <<app, helperVars, gvVars, mtVars, dtVars, baseVars, dashVars>>
\* Promise.all settles: loadInitialData goes on after its await, through
\* setAppData or the catch, and the finally
LoadSettles ==
    /\ load.pc = "loading"
    /\ \/ \A f \in FetchNames : load.st[f] = "resolved"
       \/ \E f \in FetchNames : load.st[f] = "rejected"
    /\ app' = [app EXCEPT !.appData = AppDataAfterLoad(app.appData, load),
                          !.isLoading = FALSE,
                          !.route = RouteShown(app.route, app.user)]
    /\ load' = [load EXCEPT !.pc = "settled"]
    /\ UNCHANGED <<helperVars, gvVars, mtVars, dtVars, baseVars, dashVars>>
\* the login form is submitted
HandleLogin ==
    /\ LoginShown
    /\ \E c \in Credentials :
           LET found == FindUser(app.appData.users, c[1], c[2])
           IN  app' = IF found.loggedIn THEN [app EXCEPT !.user = found, !.route = "/"]
                      ELSE app
    /\ UNCHANGED <<load, helperVars, gvVars, mtVars, dtVars, baseVars, dashVars>>
\* the logout button of the dashboard
HandleLogout ==
    /\ DashboardShown
    /\ app' = [app EXCEPT !.user = NoUser, !.route = RouteShown(app.route, NoUser)]
    /\ UNCHANGED <<load, helperVars, gvVars, mtVars, dtVars, baseVars, dashVars>>
\* the address bar takes another route
GoToRoute ==
    /\ load.pc # "none" /\ ~app.isLoading
    /\ \E r \in {"/", "/login"} : app' = [app EXCEPT !.route = RouteShown(r, app.user)]
    /\ UNCHANGED <<load, helperVars, gvVars, mtVars, dtVars, baseVars, dashVars>>
NextApp ==
    LoadInitialData \/ FetchSettles \/ LoadSettles \/ HandleLogin \/ HandleLogout \/ GoToRoute
SpecApp == InitApp /\ [][NextApp]_vars
\* the effect runs after the mount, every request ends, and the
\* continuation of a settled promise runs
SpecAppFair ==
    SpecApp /\ WF_vars(LoadInitialData) /\ WF_vars(FetchSettles) /\ WF_vars(LoadSettles)

\* the operations of the helpers and of the two tables, called again and
\* again on the same inputs
InitCore == InitBd \/ InitProj \/ InitMt \/ InitDt
NextCore == CallCalculateBusinessDays \/ CallCalculateProjection \/ NextMt \/ NextDt
SpecCore == InitCore /\ [][NextCore]_vars

\* every operation, from any of the inputs above
Init == InitApp \/ InitDash \/ InitBase \/ InitDate \/ InitTrip \/ InitCur \/ InitBd \/ InitProj \/ InitGv \/ InitMt \/ InitDt
Next ==
    \/ NextApp
    \/ NextDash
    \/ MapRow
    \/ CallParseDate
    \/ ParseDMY
    \/ ParseISO
    \/ CallParseCurrency
    \/ CallCalculateBusinessDays
    \/ CallCalculateProjection
    \/ CallGetValue
    \/ RenderManagerialTable
    \/ MtHandleSort
    \/ MountDetailTable
    \/ DtSetStatusFilter
    \/ DtHandleSort
Spec == Init /\ [][Next]_vars

(***************************************************************************)
(* The properties.  What follows states the expected results on their own  *)
(* terms (sets of calendar days, positions in the text), not by the        *)
(* operators above.                                                        *)
(***************************************************************************)
\* 3 March 2024 was a Sunday: 0 = Sunday .. 6 = Saturday
WeekdayIndex(day) == (day - Mar(3)) % 7
IsWeekday(day) == WeekdayIndex(day) \in 1..5

\* the calendar days from the day of `a` to the day of `b`, both included
DaysBetween(a, b) ==
    IF a.k = "date" /\ b.k = "date" THEN DayOf(a)..DayOf(b) ELSE {}
\* the calendar days of a list of holidays
HolidayDays(holidays) ==
    { DayOf(holidays[i]) : i \in { j \in 1..Len(holidays) : holidays[j].k = "date" } }
\* the days of [a, b] that are neither Saturday, Sunday nor a holiday
ExpectedBusinessDays(a, b, holidays) ==
    Cardinality({ d \in DaysBetween(a, b) : IsWeekday(d) /\ d \notin HolidayDays(holidays) })

ProjDone == projOut # NoNum
CfgStart == parseDate(config.dataInicial)
CfgEnd == parseDate(config.dataFinal)
CfgRef == parseDate(config.dataAtual)
CfgHolidays ==
    [i \in 1..Len(config.feriados) |-> parseDate(config.feriados[i])]
CfgParses == CfgStart.k # "null" /\ CfgEnd.k # "null" /\ CfgRef.k # "null"
CfgValid == CfgStart.k = "date" /\ CfgEnd.k = "date" /\ CfgRef.k = "date"
FilterSupplied ==
    parseInputDate(filterStartDate).k # "null" /\ parseInputDate(filterEndDate).k # "null"
\* the earlier of a and b (b when they do not compare)
EarlierDate(a, b) == IF a.k = "date" /\ b.k = "date" /\ a.t < b.t THEN a ELSE b
\* the accumulation window as the design states it
ExpectedWindow ==
    IF FilterSupplied
    THEN [start |-> parseInputDate(filterStartDate),
          end |-> EarlierDate(parseInputDate(filterEndDate), CfgRef)]
    ELSE [start |-> CfgStart, end |-> CfgRef]
ExpectedTotal == ExpectedBusinessDays(CfgStart, CfgEnd, CfgHolidays)
ExpectedElapsed == ExpectedBusinessDays(ExpectedWindow.start, ExpectedWindow.end, CfgHolidays)

\* C1: when the configuration's three dates parse and the accumulation
\* window holds at least one business day, the projection is
\* (currentSales / elapsedBusinessDays) * totalBusinessDays, both counts
\* taken with the configuration's holidays.
C1_ProjectionFormula ==
    (ProjDone /\ CfgParses /\ ExpectedElapsed > 0) =>
        projOut = NumMul(NumDiv(currentSales, Int2Num(ExpectedElapsed)),
                         Int2Num(ExpectedTotal))
C1_Witness ==
    /\ ProjDone /\ CfgValid /\ FilterSupplied
    /\ config.feriados = <<FormatDMY(Mar(5)), FormatDMY(Mar(5))>>
    /\ ExpectedElapsed > 1 /\ ExpectedTotal > ExpectedElapsed
    /\ projOut.k = "fin" /\ projOut.n > 0

C2Config ==
    [dataInicial |-> FormatDMY(Mar(1)), dataFinal |-> FormatDMY(Mar(31)),
     dataAtual |-> FormatDMY(Mar(2)), feriados |-> <<>>]
C2Scenario ==
    /\ ProjDone /\ config = C2Config /\ currentSales = Int2Num(300)
    /\ filterStartDate = <<>> /\ filterEndDate = <<>>
\* C2 as stated: in the March 2024 scenario the period has 21 business
\* days, the window [01/03/2024, 02/03/2024] has 2, and project(300) = 3150.
C2_AsStated ==
    C2Scenario =>
        /\ projLocals.totalMonthBusinessDays = 21
        /\ projLocals.passedBusinessDays = 2
        /\ projOut = Int2Num(3150)
\* C2, amended: in the March 2024 scenario the period has 21 business
\* days, the window [01/03/2024, 02/03/2024] has 1 (2 March 2024 is a
\* Saturday), and project(300) = (300 / 1) * 21 = 6300.
C2_MarchScenario ==
    C2Scenario =>
        /\ projLocals.totalMonthBusinessDays = 21
        /\ projLocals.passedBusinessDays = 1
        /\ projOut = Int2Num(6300)
C2_Witness ==
    C2Scenario /\ WeekdayIndex(DayOf(CfgRef)) = 6 /\ projLocals.returned = "end"

\* C3: the projection is exactly 0, whatever the sales figure, whenever the
\* accumulation window holds no business day (empty, weekend only,
\* holidays only).
C3_ZeroWhenNoElapsedDays ==
    (ProjDone /\ CfgParses /\ ExpectedElapsed = 0) => projOut = Zero
C3_Witness ==
    /\ ProjDone /\ CfgValid /\ ExpectedElapsed = 0
    /\ currentSales = NaN
    /\ DaysBetween(ExpectedWindow.start, ExpectedWindow.end) # {}
    /\ \E d \in DaysBetween(ExpectedWindow.start, ExpectedWindow.end) :
           IsWeekday(d) /\ d \in HolidayDays(CfgHolidays)
    /\ projOut = Zero

\* C4: the accumulation window is [periodStart, referenceDate] by default
\* and [filterStart, min(filterEnd, referenceDate)] when both filter dates
\* are supplied; its end is never later than the reference date and its
\* start is the filter's start, unclamped.
C4_AccumulationWindow ==
    (ProjDone /\ CfgValid) =>
        /\ projLocals.periodStart = ExpectedWindow.start
        /\ projLocals.periodEnd = ExpectedWindow.end
        /\ projLocals.periodEnd.t <= CfgRef.t
        /\ FilterSupplied => projLocals.periodStart = parseInputDate(filterStartDate)
C4_Witness ==
    /\ ProjDone /\ CfgValid /\ FilterSupplied
    /\ parseInputDate(filterStartDate).t < CfgStart.t
    /\ parseInputDate(filterEndDate).t > CfgRef.t
    /\ projLocals.periodStart.t < CfgStart.t
    /\ projLocals.periodEnd = CfgRef
    /\ projLocals.passedBusinessDays > 0

\* C5: for a fixed configuration and filter the projection is linear in
\* the (finite) sales figure: project(2x) = 2 * project(x).
C5_LinearInSales ==
    (ProjDone /\ IsFinite(currentSales)) =>
        calculateProjection(NumMul(Int2Num(2), currentSales), config,
                            filterStartDate, filterEndDate)
            = NumMul(Int2Num(2), projOut)
C5_Witness ==
    /\ ProjDone /\ IsFinite(currentSales)
    /\ projOut.k = "fin" /\ projOut.d > 1
    /\ projLocals.passedBusinessDays > 0

BdDone == bdOut # -1
\* C6: calculateBusinessDays counts both end points, is an integer >= 0 and
\* equals the number of days of [start, end] (by calendar day) that are no
\* Saturday, Sunday or holiday; so it is 0 when start's day is after end's,
\* and for one day without holidays it is 1 on a weekday and 0 on a weekend.
C6_CountsDaysInclusive ==
    BdDone =>
        /\ bdOut \in Nat
        /\ bdOut = ExpectedBusinessDays(bdStart, bdEnd, bdHolidays)
        /\ (bdStart.k = "date" /\ bdEnd.k = "date" /\ DayOf(bdStart) > DayOf(bdEnd))
               => bdOut = 0
        /\ (bdStart.k = "date" /\ bdEnd.k = "date" /\ DayOf(bdStart) = DayOf(bdEnd)
                /\ bdHolidays = <<>>)
               => bdOut = (IF IsWeekday(DayOf(bdStart)) THEN 1 ELSE 0)
C6_Witness ==
    /\ BdDone /\ bdStart.k = "date" /\ bdEnd.k = "date"
    /\ DayOf(bdStart) < DayOf(bdEnd)
    /\ IsWeekday(DayOf(bdStart)) /\ IsWeekday(DayOf(bdEnd))
    /\ DayOf(bdEnd) \notin HolidayDays(bdHolidays)
    /\ bdOut >= 2

\* C7: the count is the weekdays of [start, end] less the distinct calendar
\* days of the holidays that are weekdays of [start, end]; weekend or
\* out-of-range holidays, repeated holidays and times of day change nothing.
C7_HolidaysExcludedOnce ==
    BdDone =>
        bdOut = Cardinality({ d \in DaysBetween(bdStart, bdEnd) : IsWeekday(d) })
                - Cardinality({ d \in HolidayDays(bdHolidays) :
                                  IsWeekday(d) /\ d \in DaysBetween(bdStart, bdEnd) })
C7_Witness ==
    /\ BdDone /\ bdStart.k = "date" /\ bdEnd.k = "date"
    /\ bdStart.t % TicksPerDay > 0 /\ bdEnd.t % TicksPerDay = 0
    /\ bdHolidays = <<DateAt(Mar(4), 0), DateAt(Mar(4), TicksPerDay - 1)>>
    /\ Mar(4) \in DaysBetween(bdStart, bdEnd)
    /\ IsWeekday(DayOf(bdEnd))
    /\ bdOut > 0

\* C8: the dd/mm/yyyy text and the yyyy-mm-dd text of one calendar day
\* parse to equal results, that day at local midnight.
C8_BothFormatsAgree ==
    (outDMY # NoDate /\ outISO # NoDate) =>
        outDMY = outISO /\ outDMY = DateAt(dayNum, 0)
C8_Witness ==
    outDMY # NoDate /\ outISO # NoDate /\ dayNum = Feb(29) /\ outDMY.k = "date"

\* a text of three parts of digits, all separated by "/" or all by "-"
AllDigits(part) == part # <<>> /\ \A i \in 1..Len(part) : IsDigit(part[i])
WellFormedDateText(text) ==
    \E sep \in {"/", "-"} :
        /\ \A i \in 1..Len(text) : IsDigit(text[i]) \/ text[i] = sep
        /\ Cardinality({ i \in 1..Len(text) : text[i] = sep }) = 2
        /\ \A p \in { Split(text, sep)[i] : i \in 1..3 } : AllDigits(p)
\* C9: parseDate returns null for every empty or malformed text, the texts
\* of three parts that are not numbers included.
C9_MalformedYieldsNull ==
    (dateOut # NoDate /\ ~WellFormedDateText(dateText)) => dateOut = NullDate

\* the text cleaned as the design states it
KeepDigitsMinus(s) == SelectSeq(s, LAMBDA c : IsNumeral(c) \/ c = "-")
FirstComma(s) == CHOOSE i \in 1..Len(s) : s[i] = "," /\ \A j \in 1..(i - 1) : s[j] # ","
ExpectedClean(text) ==
    IF \E i \in 1..Len(text) : text[i] = ","
    THEN KeepDigitsMinus(SubSeq(text, 1, FirstComma(text) - 1)) \o <<".">>
         \o KeepDigitsMinus(SubSeq(text, FirstComma(text) + 1, Len(text)))
    ELSE SelectSeq(text, LAMBDA c : IsNumeral(c) \/ c = "." \/ c = "-")
ExpectedCurrency(text) ==
    IF IsFinite(parseFloat(ExpectedClean(text))) THEN parseFloat(ExpectedClean(text))
    ELSE Zero
\* C10: parseCurrency returns the number read from the cleaned text, and 0
\* whenever that is not a finite number.
C10_CurrencyAsStated ==
    curOut # NoNum => curOut = ExpectedCurrency(curText)

\* ---- getValue ----
GvDone == gvOut.done
\* the columns of the row whose normalized name is the normalized candidate
\* and whose cell is not empty
NonEmptyMatches(row, cand) ==
    {i \in 1..Len(row) : normalizeString(row[i].key) = normalizeString(cand)
                         /\ row[i].val # <<>>}
ExpectedGetValue(row, keys, index) ==
    LET hits == {j \in 1..Len(keys) : NonEmptyMatches(row, keys[j]) # {}}
        first == CHOOSE j \in hits : \A h \in hits : j <= h
        cols == NonEmptyMatches(row, keys[first])
    IN  IF hits # {} THEN row[CHOOSE i \in cols : \A h \in cols : i <= h].val
        ELSE IF index + 1 <= Len(row) THEN row[index + 1].val
        ELSE <<>>

\* C11: getValue returns the cell of the first candidate key, in candidate
\* order, that equals a row key after normalization and has a non-empty cell;
\* failing that, the cell of the column at the positional index when the row
\* has that column; otherwise the empty text.
C11_FirstNonEmptyMatchOrPositional ==
    GvDone => gvOut.v = ExpectedGetValue(gvArgs.row, gvArgs.keys, gvArgs.index)

\* ---- the unit ranking ----
MtDone == unitStats.done
MtRows == unitStats.rows
MtData == mtProps.data
\* the sum of a set of positions of a list of numbers
RECURSIVE SumOver(_, _)
SumOver(f, S) ==
    IF S = {} THEN Zero
    ELSE LET i == CHOOSE j \in S : TRUE IN NumAdd(f[i], SumOver(f, S \ {i}))
\* the distinct non-empty pickup and delivery units of the records
UnitUniverse(data) ==
    ({data[i].coleta : i \in 1..Len(data)} \cup {data[i].entrega : i \in 1..Len(data)})
    \ {<<>>}
\* the row of a unit in the ranking
RowOf(unit) == MtRows[CHOOSE i \in 1..Len(MtRows) : MtRows[i].unit = unit]
PickedUpBy(unit) == {i \in 1..Len(MtData) : MtData[i].coleta = unit}
DeliveredBy(unit) == {i \in 1..Len(MtData) : MtData[i].entrega = unit}

\* C12: the sales of all rows of the ranking add up to the amounts of the
\* records that have a pickup unit.
C12_SalesConserved ==
    MtDone =>
        SumOver([i \in 1..Len(MtRows) |-> MtRows[i].vendasTotal], 1..Len(MtRows))
        = SumOver([i \in 1..Len(MtData) |-> MtData[i].valorCte],
                  {i \in 1..Len(MtData) : MtData[i].coleta # <<>>})
\* two units share the sales, and a record without pickup unit is present
C12_Witness ==
    /\ MtDone
    /\ Len(MtRows) >= 2
    /\ \E i, j \in 1..Len(MtRows) :
           i # j /\ NumPositive(MtRows[i].vendasTotal) /\ NumPositive(MtRows[j].vendasTotal)

\* C13: the ranking has exactly one row per distinct non-empty pickup or
\* delivery unit of the records, and the target of a unit without a matching
\* target record is 0.
C13_OneRowPerUnit ==
    MtDone =>
        /\ {MtRows[i].unit : i \in 1..Len(MtRows)} = UnitUniverse(MtData)
        /\ \A i, j \in 1..Len(MtRows) : MtRows[i].unit = MtRows[j].unit => i = j
        /\ \A i \in 1..Len(MtRows) :
               (\A k \in 1..Len(mtProps.meta) : mtProps.meta[k].agencia # MtRows[i].unit)
               => MtRows[i].metaVal = Zero
\* a unit that only delivers, with no sales and no target, has its row
C13_Witness ==
    /\ MtDone
    /\ \E i \in 1..Len(MtRows) :
           /\ PickedUpBy(MtRows[i].unit) = {}
           /\ MtRows[i].vendasTotal = Zero
           /\ \A k \in 1..Len(mtProps.meta) : mtProps.meta[k].agencia # MtRows[i].unit
    /\ Len(MtRows) >= 2

\* C14: sales, projection and manifest figures of a unit come from the
\* records it picked up only, deadline figures from the records it delivers
\* only.
C14_PickupAndDeliverySides ==
    MtDone =>
        \A r \in 1..Len(MtRows) :
            LET row == MtRows[r]
                P == PickedUpBy(row.unit)
                D == DeliveredBy(row.unit)
            IN  /\ row.vendasTotal = SumOver([i \in 1..Len(MtData) |-> MtData[i].valorCte], P)
                /\ row.projected = calculateProjection(row.vendasTotal, mtProps.datas,
                                                       mtProps.startDate, mtProps.endDate)
                /\ row.totalManifestos = Cardinality(P)
                /\ row.semMdfe = Cardinality({i \in P : MtData[i].statusMdfe = "SEM MDFE"})
                /\ row.totalBaixas = Cardinality(D)
                /\ row.noPrazo = Cardinality({i \in D : MtData[i].statusPrazo = "NO PRAZO"})
                /\ row.foraPrazo =
                       Cardinality({i \in D : MtData[i].statusPrazo = "FORA DO PRAZO"})
                /\ row.semBaixa = Cardinality({i \in D : MtData[i].statusPrazo = "SEM BAIXA"})
\* a record delivered by B without pickup unit counts in B's deadline figures
\* and B has no sales
C14_Witness ==
    /\ MtDone
    /\ \E i \in 1..Len(MtData) : MtData[i].coleta = <<>> /\ MtData[i].entrega = UnitB
    /\ \E r \in 1..Len(MtRows) :
           /\ MtRows[r].unit = UnitB
           /\ MtRows[r].totalBaixas >= 1
           /\ MtRows[r].vendasTotal = Zero
           /\ MtRows[r].totalManifestos = 0

\* C15: every percentage of every row is a finite number, and is 0 when its
\* denominator is 0.
C15_PercentagesFinite ==
    MtDone =>
        \A r \in 1..Len(MtRows) :
            LET row == MtRows[r]
            IN  /\ \A f \in {"projectionPct", "semMdfePct", "noPrazoPct", "foraPrazoPct",
                             "semBaixaPct"} : IsFinite(row[f])
                /\ row.metaVal = Zero => row.projectionPct = Zero
                /\ row.totalManifestos = 0 => row.semMdfePct = Zero
                /\ row.totalBaixas = 0 =>
                       row.noPrazoPct = Zero /\ row.foraPrazoPct = Zero /\ row.semBaixaPct = Zero

\* C16: the target of a unit is the value of the first target record, in
\* list order, with exactly the unit's name, and 0 when there is none; later
\* records of the same name do not count.
C16_FirstTargetWins ==
    MtDone =>
        \A r \in 1..Len(MtRows) :
            LET hits == {k \in 1..Len(mtProps.meta) : mtProps.meta[k].agencia = MtRows[r].unit}
            IN  IF hits = {} THEN MtRows[r].metaVal = Zero
                ELSE \E k \in hits :
                         /\ \A h \in hits : k <= h
                         /\ MtRows[r].metaVal = mtProps.meta[k].meta
\* a unit with two target records of different values
C16_Witness ==
    /\ MtDone
    /\ \E r \in 1..Len(MtRows) : \E k, h \in 1..Len(mtProps.meta) :
           /\ k < h
           /\ mtProps.meta[k].agencia = MtRows[r].unit
           /\ mtProps.meta[h].agencia = MtRows[r].unit
           /\ mtProps.meta[k].meta # mtProps.meta[h].meta

\* x >= y on numbers
NumGeq(x, y) ==
    /\ x.k # "nan" /\ y.k # "nan"
    /\ \/ x = y
       \/ x = PosInf
       \/ y = NegInf
       \/ x.k = "fin" /\ y.k = "fin" /\ x.n * y.d >= y.n * x.d
\* the percentage the claim names for a view and a filter
ExpectedDefaultKey ==
    CASE mtProps.activeTab = "VENDAS" -> "projectionPct"
      [] mtProps.activeTab = "MANIFESTOS" -> "semMdfePct"
      [] mtProps.activeTab = "BAIXAS" /\ mtProps.activeFilter = "NO PRAZO" -> "noPrazoPct"
      [] mtProps.activeTab = "BAIXAS" /\ mtProps.activeFilter = "FORA DO PRAZO" -> "foraPrazoPct"
      [] mtProps.activeTab = "BAIXAS" /\ mtProps.activeFilter \in {"SEM BAIXA", "TODOS"}
             -> "semBaixaPct"

\* C17: with no sort override the ranking is in descending order of the
\* percentage of the view: projectionPct in the sales view, the bucket of the
\* active filter in the deadline view (semBaixaPct for SEM BAIXA and for
\* TODOS), semMdfePct in the manifest view.
C17_DefaultOrderDescending ==
    (MtDone /\ mtSort.sortField = "null") =>
        \A i \in 1..(Len(MtRows) - 1) :
            NumGeq(MtRows[i][ExpectedDefaultKey], MtRows[i + 1][ExpectedDefaultKey])
\* the sort moved a row: the first unit enumerated is not first in the ranking
C17_Witness ==
    /\ MtDone /\ mtSort.sortField = "null"
    /\ mtProps.activeTab = "BAIXAS" /\ mtProps.activeFilter = "NO PRAZO"
    /\ Len(MtRows) >= 2
    /\ MtRows[1].unit # Units(MtData)[1]
    /\ MtRows[1].noPrazoPct # MtRows[2].noPrazoPct

\* ---- the record-level view ----
DtDone == processedData.done
DtRows == processedData.rows
DtData == dtProps.data
\* how many times a record occurs in a list
Occurrences(list, rec) == Cardinality({i \in 1..Len(list) : list[i] = rec})
\* the records the claim keeps for a view and a status filter
IsKept(rec) ==
    IF dtState.statusFilter = "TODOS" THEN TRUE
    ELSE IF dtProps.type = "BAIXAS" THEN rec.statusPrazo = dtState.statusFilter
    ELSE IF dtProps.type = "MANIFESTOS" THEN rec.statusMdfe = dtState.statusFilter
    ELSE TRUE

\* C18: the record-level view holds exactly the records whose status of the
\* view equals the status filter, each as many times as in the input; with
\* TODOS, and in the sales view, it is a permutation of the input.
C18_FilterKeepsExactlyMatching ==
    DtDone =>
        /\ \A i \in 1..Len(DtRows) : \E j \in 1..Len(DtData) : DtRows[i] = DtData[j]
        /\ \A j \in 1..Len(DtData) :
               Occurrences(DtRows, DtData[j])
               = IF IsKept(DtData[j]) THEN Occurrences(DtData, DtData[j]) ELSE 0
\* the manifest view dropped a record and kept another
C18_Witness ==
    /\ DtDone
    /\ dtProps.type = "MANIFESTOS" /\ dtState.statusFilter = "SEM MDFE"
    /\ Len(DtRows) = 1 /\ Len(DtData) = 2
    /\ DtRows[1].statusMdfe = "SEM MDFE"
    /\ \E j \in 1..2 : DtData[j].statusMdfe = "COM MDFE"

\* the priorities and the date order the claim names
ExpectedPriority(rec) ==
    IF dtProps.type = "BAIXAS"
    THEN CASE rec.statusPrazo = "SEM BAIXA" -> 0
           [] rec.statusPrazo = "FORA DO PRAZO" -> 1
           [] rec.statusPrazo = "NO PRAZO" -> 2
           [] OTHER -> 3
    ELSE CASE rec.statusMdfe = "SEM MDFE" -> 0
           [] rec.statusMdfe = "COM MDFE" -> 1
           [] OTHER -> 2
\* the emission date as a time; a text that is no date counts as the epoch
EmissionTime(rec) ==
    LET parts == Split(rec.data, "/")
    IN  IF Len(parts) = 3 /\ \A i \in 1..3 : AllDigits(parts[i]) /\ parts[i] # <<>>
        THEN DateFromDMY(parts).t
        ELSE 0

\* C19: with no sort override the deadline and manifest views are in
\* ascending order of status priority, then of emission date: of two adjacent
\* records the first has the lower priority number, or the same and a date
\* that is not later.
C19_DefaultOrderByPriorityThenDate ==
    (DtDone /\ dtState.sortField = "null" /\ dtProps.type \in {"BAIXAS", "MANIFESTOS"}) =>
        \A i \in 1..(Len(DtRows) - 1) :
            \/ ExpectedPriority(DtRows[i]) < ExpectedPriority(DtRows[i + 1])
            \/ /\ ExpectedPriority(DtRows[i]) = ExpectedPriority(DtRows[i + 1])
               /\ EmissionTime(DtRows[i]) <= EmissionTime(DtRows[i + 1])
\* the deadline view moved a SEM BAIXA record before a NO PRAZO record that
\* came first in the input
C19_Witness ==
    /\ DtDone /\ dtState.sortField = "null" /\ dtProps.type = "BAIXAS"
    /\ Len(DtRows) = 2
    /\ DtData[1].statusPrazo = "NO PRAZO" /\ DtData[2].statusPrazo = "SEM BAIXA"
    /\ DtRows[1].statusPrazo = "SEM BAIXA" /\ DtRows[2].statusPrazo = "NO PRAZO"

\* a value of a text field is missing when it is the empty text
IsMissing(rec) == dtState.sortField \in TextFields /\ rec[dtState.sortField] = <<>>
IsPresent(rec) == ~IsMissing(rec)

\* C20: in the manual order a record whose value of the sort field is
\* missing (the empty text included) comes after every record whose value is
\* present, in ascending and in descending direction.
C20_MissingValuesLast ==
    (DtDone /\ dtState.sortField # "null") =>
        \A i, j \in 1..Len(DtRows) :
            (IsMissing(DtRows[i]) /\ IsPresent(DtRows[j])) => j < i

\* ---- handleSort of the record-level table ----
\* C21: a column selection that finds its field already the sort field keeps
\* the field and flips the direction; one that changes the sort field leaves
\* the direction ascending, whatever it was.  No other step touches the
\* sort state.
C21_SortToggle ==
    [][ (dtState'.sortField # dtState.sortField
         \/ dtState'.sortDirection # dtState.sortDirection)
        => \/ /\ dtState'.sortField = dtState.sortField
              /\ dtState.sortField # "null"
              /\ dtState'.sortDirection # dtState.sortDirection
              /\ dtState'.statusFilter = dtState.statusFilter
           \/ /\ dtState'.sortField # dtState.sortField
              /\ dtState'.sortField \in DetailHeaders(dtProps.type)
              /\ dtState'.sortDirection = "asc"
              /\ dtState'.statusFilter = dtState.statusFilter ]_vars
\* a field selected twice: the direction is descending
C21_Witness ==
    processedData.done /\ dtState.sortField = "valorCte" /\ dtState.sortDirection = "desc"

\* ---- the sort override of the unit ranking ----
\* the place of a unit in the enumeration of the unit universe
EnumerationIndex(unit) ==
    CHOOSE i \in 1..Len(Units(MtData)) : Units(MtData)[i] = unit
\* row a may come before row b under the sort override
InOverrideOrder(a, b) ==
    IF mtSort.sortField = "unit"
    THEN IF mtSort.sortDirection = "asc" THEN LocaleCompare(a.unit, b.unit) <= 0
         ELSE LocaleCompare(a.unit, b.unit) >= 0
    ELSE IF mtSort.sortDirection = "asc"
         THEN NumGeq(StatValue(b, mtSort.sortField), StatValue(a, mtSort.sortField))
         ELSE NumGeq(StatValue(a, mtSort.sortField), StatValue(b, mtSort.sortField))
\* C22: under a sort override every row comes before the rows that follow it
\* in the numeric order of the field (text order for the unit name), in the
\* direction selected, and rows with equal values of the field are in the
\* order in which their units were enumerated.
C22_OverrideOrderStable ==
    (MtDone /\ mtSort.sortField # "null") =>
        \A i, j \in 1..Len(MtRows) :
            i < j =>
                /\ InOverrideOrder(MtRows[i], MtRows[j])
                /\ MtRows[i][mtSort.sortField] = MtRows[j][mtSort.sortField]
                       => EnumerationIndex(MtRows[i].unit) < EnumerationIndex(MtRows[j].unit)
\* three rows, two of them tied on the field, and a row moved by the sort
C22_Witness ==
    /\ MtDone /\ mtSort.sortField = "totalManifestos" /\ mtSort.sortDirection = "asc"
    /\ Len(MtRows) = 3
    /\ MtRows[1].totalManifestos < MtRows[2].totalManifestos
    /\ MtRows[2].totalManifestos = MtRows[3].totalManifestos
    /\ MtRows[1].unit # Units(MtData)[1]

\* ---- records with a status outside the known values ----
KnownPrazo == {"NO PRAZO", "FORA DO PRAZO", "SEM BAIXA"}
KnownMdfe == {"COM MDFE", "SEM MDFE"}
\* the records of a set of positions that carry a given deadline status
WithPrazo(S, status) == {i \in S : MtData[i].statusPrazo = status}
\* C23: a record with a status outside the known values is counted in none
\* of the known buckets of its unit, and the known-category percentages of
\* the unit are what they are without such records: each is the share of its
\* bucket among the records of the unit that carry a known status.
C23_UnknownStatusApart ==
    MtDone =>
        \A r \in 1..Len(MtRows) :
            LET row == MtRows[r]
                delivered == DeliveredBy(row.unit)
                pickedUp == PickedUpBy(row.unit)
                knownPrazo == Cardinality({i \in delivered : MtData[i].statusPrazo \in KnownPrazo})
                knownMdfe == Cardinality({i \in pickedUp : MtData[i].statusMdfe \in KnownMdfe})
            IN  /\ row.noPrazo = Cardinality(WithPrazo(delivered, "NO PRAZO"))
                /\ row.foraPrazo = Cardinality(WithPrazo(delivered, "FORA DO PRAZO"))
                /\ row.semBaixa = Cardinality(WithPrazo(delivered, "SEM BAIXA"))
                /\ row.semMdfe = Cardinality({i \in pickedUp : MtData[i].statusMdfe = "SEM MDFE"})
                /\ row.noPrazoPct = Percent(row.noPrazo, knownPrazo)
                /\ row.foraPrazoPct = Percent(row.foraPrazo, knownPrazo)
                /\ row.semBaixaPct = Percent(row.semBaixa, knownPrazo)
                /\ row.semMdfePct = Percent(row.semMdfe, knownMdfe)
\* the counts alone: no record with an unknown status is in a known bucket
C23_CountsOnly ==
    MtDone =>
        \A r \in 1..Len(MtRows) :
            /\ MtRows[r].noPrazo + MtRows[r].foraPrazo + MtRows[r].semBaixa
                   = Cardinality({i \in DeliveredBy(MtRows[r].unit) :
                                      MtData[i].statusPrazo \in KnownPrazo})
            /\ MtRows[r].semMdfe
                   <= Cardinality({i \in PickedUpBy(MtRows[r].unit) :
                                       MtData[i].statusMdfe \in KnownMdfe})

\* ---- the records of fetchBaseData ----
\* C24: the monetary value of every record built from a row is a
\* non-negative number.
C24_ValorCteNonNegative ==
    baseOut.done =>
        /\ baseOut.rows[1].valorCte.k = "fin"
        /\ baseOut.rows[1].valorCte.n >= 0
\* the sign alone: no value is below zero
C24_NoNegativeValue ==
    baseOut.done => ~(baseOut.rows[1].valorCte.k = "fin" /\ baseOut.rows[1].valorCte.n < 0)

\* ---- the operations leave their inputs alone ----
\* the inputs of the four operations
CoreInputs ==
    <<bdStart, bdEnd, bdHolidays, currentSales, config, filterStartDate, filterEndDate,
      mtProps, dtProps>>
\* each result computed so far is the one its operation gives on the inputs
\* as they are now
CoreOutputsDetermined ==
    /\ bdOut # -1 => bdOut = calculateBusinessDays(bdStart, bdEnd, bdHolidays)
    /\ projOut # NoNum
           => projOut = calculateProjection(currentSales, config, filterStartDate, filterEndDate)
    /\ MtDone => MtRows = UnitStats(mtProps, mtSort)
    /\ DtDone => DtRows = ProcessedData(dtProps, dtState)
ViewStatuses(type) ==
    IF type = "BAIXAS" THEN KnownPrazo
    ELSE IF type = "MANIFESTOS" THEN KnownMdfe
    ELSE {}
\* C26: whenever the record-level table filters the deadline view or the
\* manifest view, the status filter it applies is TODOS or a status value of
\* that view.
C26_FilterOfTheViewShown ==
    (DtDone /\ dtProps.type \in {"BAIXAS", "MANIFESTOS"})
        => dtState.statusFilter \in {"TODOS"} \cup ViewStatuses(dtProps.type)

\* the filters that go with a tab
CompatibleFilters(activeTab) ==
    IF activeTab \in {"BAIXAS", "MANIFESTOS"} THEN {"TODOS"} \cup ViewStatuses(activeTab)
    ELSE {"TODOS"}
\* C27: activeFilter is TODOS under the tabs NONE and VENDAS, TODOS or a
\* deadline status under BAIXAS, TODOS or a manifest status under
\* MANIFESTOS; and a click on the main card of the active tab gives
\* (NONE, TODOS).
C27_FilterCompatibleWithTab ==
    /\ dash.activeTab \in {"NONE", "VENDAS", "BAIXAS", "MANIFESTOS"}
    /\ dash.activeFilter \in CompatibleFilters(dash.activeTab)
    /\ dash.activeTab # "NONE"
           => MainCardAfter(dash, dash.activeTab)
              = [dash EXCEPT !.activeTab = "NONE", !.activeFilter = "TODOS"]
\* a global user selected a unit and clicked a sub-card of the deadline card
C27_Witness ==
    /\ dash.selectedUnit = UnitB /\ dashUser = <<>>
    /\ dash.activeTab = "BAIXAS" /\ dash.activeFilter = "FORA DO PRAZO"
    /\ DtDone /\ dtState.statusFilter = "FORA DO PRAZO"

\* C28: the selected unit of a user with an assigned unit is that unit in
\* every state, and a step that changes the selected unit is a step of a
\* user without an assigned unit.
C28_UnitUserKeepsUnit ==
    /\ [](dashUser # <<>> => dash.selectedUnit = dashUser)
    /\ [][dash'.selectedUnit # dash.selectedUnit => isGlobalUser(dashUser)]_vars
\* a user with a unit looks at the records of a view, filtered and sorted
C28_Witness ==
    /\ dashUser = UnitA /\ dash.selectedUnit = UnitA
    /\ dash.activeTab = "MANIFESTOS" /\ dash.activeFilter = "COM MDFE"
    /\ DtDone /\ Len(DtRows) = 1 /\ dtState.sortField = "data"

\* ---- the ranking against the cards of the dashboard ----
\* C29: for every unit of the ranking, the manifest document total and the
\* SEM MDFE percentage of its row are those of the manifest card of the
\* dashboard with that unit selected, over the same records.
C29_RankingAgreesWithCard ==
    MtDone =>
        \A r \in 1..Len(MtRows) :
            LET stats == ManifestosStats(MtData, MtRows[r].unit)
            IN  /\ MtRows[r].totalManifestos = stats.total
                /\ MtRows[r].semMdfe = stats.sem
                /\ MtRows[r].semMdfePct = CardSemMdfePct(stats)
\* the counts of SEM MDFE documents alone agree
C29_SemCountsAgree ==
    MtDone =>
        \A r \in 1..Len(MtRows) :
            MtRows[r].semMdfe = ManifestosStats(MtData, MtRows[r].unit).sem

\* ---- the load, the login and the routes ----
\* appData is its initial value, or what one load delivered with its four
\* fetches resolved
AppDataAllOrNothing ==
    \/ app.appData = InitialAppData
    \/ /\ load.pc = "settled"
       /\ \A f \in FetchNames : load.st[f] = "resolved"
       /\ app.appData = load.val
\* the dashboard is shown to a user of the loaded list, with a calendar config
DashboardGated ==
    DashboardShown =>
        /\ \E i \in 1..Len(app.appData.users) : app.appData.users[i] = app.user
        /\ ~app.appData.datas.isNull
\* C30: appData is all-or-nothing; the dashboard is shown only to a logged-in
\* user of the loaded user list, with a calendar config that is not null;
\* without a user the route "/" is never shown, so a logout ends on the
\* login route; and whenever the loading flag is set it becomes false again.
C30_LoadGatesDashboard ==
    /\ [](AppDataAllOrNothing)
    /\ [](DashboardGated)
    /\ [](~app.isLoading /\ ~app.user.loggedIn => app.route = "/login")
    /\ [][app.user.loggedIn /\ ~app'.user.loggedIn => app'.route = "/login"]_vars
    /\ (app.isLoading ~> ~app.isLoading)
\* after a complete load a user logged in with a name in another case and
\* blanks around it, and sees the dashboard
C30_Witness ==
    /\ DashboardShown /\ app.user.usuario = <<"A">> /\ app.user.unidade = UnitB
    /\ load.pc = "settled" /\ app.appData.base # <<>>
====
